---- MODULE Spec2Model ----
(***************************************************************************)
(* A model of the risk-measurement pipeline of risk_engine.                *)
(*                                                                         *)
(* Part 1 (SpecShock): the MarketState container, the CurveRegistry it     *)
(* may reference, and apply_shocks / with_factors.                         *)
(*                                                                         *)
(* Part 2 (SpecPfe): monte_carlo_pfe_profile, the validation of its grid,  *)
(* the random generators it derives and the path simulators it calls.      *)
(*                                                                         *)
(* Part 3 (SpecMetrics): the scenario and analytic PFE and the VaR         *)
(* functions.                                                              *)
(*                                                                         *)
(* Part 4 (SpecEngine): MarketData, apply_scenario and PricingEngine with  *)
(* the pricing models it calls.                                            *)
(*                                                                         *)
(* Part 5 (SpecAnalytic): analytic_pfe_profile on a portfolio, with the    *)
(* parameters it extracts from the positions, and the rolling of a         *)
(* portfolio to a horizon.                                                 *)
(*                                                                         *)
(* Part 6 (SpecRegistry, SpecRisk): the factor keys of a MarketState       *)
(* against the curve registry; Market, CurveSet, bump_market and           *)
(* curve_sensitivities.                                                    *)
(*                                                                         *)
(* Numbers: the code works on Python floats.  The model works on integers, *)
(* on which +, * and comparisons are exact; float(x) of a number keeps its *)
(* value, so it is written as the value itself.                            *)
(***************************************************************************)
EXTENDS Integers, Sequences, FiniteSets, TLC

VARIABLES
    heap,      \* the MarketState objects built so far; an object's id is its index
    names,     \* CurveRegistry._names of the one registry object states may share
    last,      \* what the last operation was given and how it ended
    cfg,       \* Parts 2-4: the arguments the calls of a behaviour are given
    ref,       \* Part 2: an earlier Monte Carlo run whose result the caller kept
    cur        \* Parts 2-4: the call that has just returned or raised

vars == <<heap, names, last, cfg, ref, cur>>

\* the variables of Parts 2-4; Part 1 leaves them alone, and they are empty there
pfeVars == <<cfg, ref, cur>>

PfeUnused == cfg = <<>> /\ ref = <<>> /\ cur = <<>>

----------------------------------------------------------------------------
(* Bounds of the model *)

\* how many MarketState objects a run may build
MaxStates == 2

\* how many shocks a ShockSet holds at most
MaxShocks == 2

----------------------------------------------------------------------------
(* Factor keys. A key "DF.OIS.1Y" is the sequence of its dot-separated parts. *)

SpotKey == <<"SPOT", "ABC">>

DfKey == <<"DF", "OIS", "1Y">>

Keys == {SpotKey, DfKey}

CurveNames == {"OIS"}

\* clean.isalpha() and len(clean) == 6 for the second part of a FWD. key
IsFxPair(part) == part \in {"EURUSD", "EUR/USD"}

ShockTypes == {"abs", "rel", "pct"}

ShockValues == {-1, 2}

Shocks == [key : Keys, shock_type : ShockTypes, value : ShockValues]

RECURSIVE SeqsUpTo(_, _)
SeqsUpTo(S, n) ==
    IF n = 0 THEN {<<>>}
    ELSE LET shorter == SeqsUpTo(S, n - 1)
         IN  shorter \cup {Append(q, x) : q \in {r \in shorter : Len(r) = n - 1}, x \in S}

ShockSets == SeqsUpTo(Shocks, MaxShocks)

----------------------------------------------------------------------------
(* Outcomes: a call either returns ("ok") or raises; kind names the exception. *)

KeyErr == "KeyError: Missing market factor"

CurveErr == "ValueError: Unknown curve id"

FormatErr == "ValueError: Market factor key must look like DF.<curve_id>.<pillar>"

TypeErr == "ValueError: Unknown shock_type"

Ok(v) == [kind |-> "ok", val |-> v]

Raise(e) == [kind |-> e, val |-> 0]

----------------------------------------------------------------------------
(* CurveRegistry *)

is_known(nms, name) == name \in nms

\* "ok" or the ValueError of require_known
require_known(nms, name) == IF is_known(nms, name) THEN "ok" ELSE CurveErr

----------------------------------------------------------------------------
(* MarketState *)

NoRegistry == "None"

TheRegistry == "registry"

\* key.startswith(("DF.", "FWD."))
IsCurveKey(key) == Len(key) >= 2 /\ key[1] \in {"DF", "FWD"}

\* [kind, val]: val is the curve id, or "None"
extract_curve_id(key) ==
    IF ~IsCurveKey(key) THEN Ok("None")
    ELSE IF Len(key) < 3 THEN Raise(FormatErr)
    ELSE IF key[1] = "FWD" /\ IsFxPair(key[2]) THEN Ok("None")
    ELSE Ok(key[2])

\* "ok" or the exception _validate_curve_id raises
validate_curve_id(st, nms, key) ==
    IF st.registry = NoRegistry THEN "ok"
    ELSE LET cid == extract_curve_id(key)
         IN  IF cid.kind # "ok" THEN cid.kind
             ELSE IF cid.val = "None" THEN "ok"
             ELSE require_known(nms, cid.val)

get_missing_as_zero(st, nms, key) ==
    LET v == validate_curve_id(st, nms, key)
    IN  IF v # "ok" THEN Raise(v)
        ELSE IF key \in DOMAIN st.factors THEN Ok(st.factors[key])
        ELSE Ok(0)

\* get with the lookup before the validation
get_lookup_first(st, nms, key) ==
    IF key \in DOMAIN st.factors THEN Ok(st.factors[key])
    ELSE LET v == validate_curve_id(st, nms, key)
         IN  IF v # "ok" THEN Raise(v) ELSE Raise(KeyErr)

get(st, nms, key) ==
    LET v == validate_curve_id(st, nms, key)
    IN  IF v # "ok" THEN Raise(v)
        ELSE IF key \in DOMAIN st.factors THEN Ok(st.factors[key])
        ELSE Raise(KeyErr)

\* __post_init__: "ok" or the ValueError of the first unknown discount curve
post_init(dc, reg, nms) ==
    IF reg = NoRegistry THEN "ok"
    ELSE IF \A ccy \in DOMAIN dc : is_known(nms, dc[ccy]) THEN "ok"
    ELSE CurveErr

MarketState(f, dc, m, reg) ==
    [factors |-> f, discount_curves |-> dc, meta |-> m, registry |-> reg]

\* new_factors = dict(self.factors); new_factors.update(updates)
merged(factors, updates) ==
    [k \in DOMAIN factors \cup DOMAIN updates |->
        IF k \in DOMAIN updates THEN updates[k] ELSE factors[k]]

\* A call's effect on objects: self is the receiver after the call, new the
\* object returned, fresh whether new is another object than the receiver.
\* with_factors builds a dict of its own and a MarketState of its own.
with_factors_only_updates(st, updates) ==
    [self  |-> st,
     new   |-> MarketState(updates, st.discount_curves, st.meta, st.registry),
     fresh |-> TRUE]

with_factors(st, updates) ==
    [self  |-> st,
     new   |-> MarketState(merged(st.factors, updates), st.discount_curves,
                           st.meta, st.registry),
     fresh |-> TRUE]

----------------------------------------------------------------------------
(* apply_shocks *)

EmptyUpdates == [k \in {} |-> 0]

\* updates[key] = val
Put(updates, key, val) ==
    [k \in DOMAIN updates \cup {key} |-> IF k = key THEN val ELSE updates[k]]

shocked_value_rel_as_factor(base, s) ==
    IF s.shock_type = "abs" THEN Ok(base + s.value)
    ELSE IF s.shock_type = "rel" THEN Ok(base * s.value)
    ELSE Raise(TypeErr)

shocked_value_unknown_as_abs(base, s) ==
    IF s.shock_type = "rel" THEN Ok(base * (1 + s.value))
    ELSE Ok(base + s.value)

\* the if/elif/else of the loop body
shocked_value(base, s) ==
    IF s.shock_type = "abs" THEN Ok(base + s.value)
    ELSE IF s.shock_type = "rel" THEN Ok(base * (1 + s.value))
    ELSE Raise(TypeErr)

shock_base_compounding(st, nms, updates, key) ==
    IF key \in DOMAIN updates THEN Ok(updates[key]) ELSE get(st, nms, key)

\* base = state.get(s.key): read from the input state, whatever updates holds
shock_base(st, nms, updates, key) == get(st, nms, key)

record_update_reset(updates, key, val) == Put(EmptyUpdates, key, val)

\* updates[s.key] = ...
record_update(updates, key, val) == Put(updates, key, val)

\* the for loop from shock i on; [kind, updates]
RECURSIVE shock_loop(_, _, _, _, _)
shock_loop(st, nms, shocks, i, updates) ==
    IF i > Len(shocks) THEN [kind |-> "ok", updates |-> updates]
    ELSE LET s    == shocks[i]
             base == shock_base(st, nms, updates, s.key)
         IN  IF base.kind # "ok" THEN [kind |-> base.kind, updates |-> updates]
             ELSE LET nv == shocked_value(base.val, s)
                  IN  IF nv.kind # "ok" THEN [kind |-> nv.kind, updates |-> updates]
                      ELSE shock_loop(st, nms, shocks, i + 1,
                                      record_update(updates, s.key, nv.val))

NoState == MarketState(EmptyUpdates, EmptyUpdates, "none", NoRegistry)

\* [kind, state, self, fresh]: the MarketState returned or the exception raised,
\* and the input state after the call
apply_shocks(st, nms, shocks) ==
    LET r == shock_loop(st, nms, shocks, 1, EmptyUpdates)
    IN  IF r.kind # "ok"
        THEN [kind |-> r.kind, state |-> NoState, self |-> st, fresh |-> TRUE]
        ELSE LET w   == with_factors(st, r.updates)
                 chk == post_init(w.new.discount_curves, w.new.registry, nms)
             IN  IF chk # "ok"
                 THEN [kind |-> chk, state |-> NoState, self |-> w.self, fresh |-> TRUE]
                 ELSE [kind |-> "ok", state |-> w.new, self |-> w.self,
                       fresh |-> w.fresh]

----------------------------------------------------------------------------
(* The state machine of Part 1 *)

BaseValue(key) == IF key = SpotKey THEN 2 ELSE 3

InitFactors == {[k \in D |-> BaseValue(k)] : D \in SUBSET Keys}

InitCurves == {EmptyUpdates, [ccy \in {"USD"} |-> "OIS"]}

Idle == [op |-> "idle", src |-> 0, shocks |-> <<>>, updates |-> EmptyUpdates,
         before |-> NoState, known |-> {}, kind |-> "ok", state |-> NoState,
         fresh |-> TRUE]

ShockInit ==
    /\ names \in SUBSET CurveNames
    /\ \E f \in InitFactors, dc \in InitCurves, reg \in {NoRegistry, TheRegistry} :
          /\ post_init(dc, reg, names) = "ok"
          /\ heap = <<MarketState(f, dc, "eod", reg)>>
    /\ last = Idle
    /\ PfeUnused

\* A call of apply_shocks(heap[id], shockset): last holds its arguments, the
\* names the registry knew at the call, and what the call returned or raised.
ApplyShocks ==
    \E id \in DOMAIN heap, shocks \in ShockSets :
        LET r == apply_shocks(heap[id], names, shocks)
        IN  /\ last.op = "idle"
            /\ Len(heap) < MaxStates
            /\ heap' = [heap EXCEPT ![id] = r.self]
            /\ last' = [op |-> "apply_shocks", src |-> id, shocks |-> shocks,
                        updates |-> EmptyUpdates, before |-> heap[id],
                        known |-> names, kind |-> r.kind, state |-> r.state, fresh |-> r.fresh]
            /\ UNCHANGED <<names, pfeVars>>

UpdateSets == {[k \in D |-> 7] : D \in SUBSET Keys}

\* A call of heap[id].with_factors(updates)
WithFactors ==
    \E id \in DOMAIN heap, updates \in UpdateSets :
        LET w   == with_factors(heap[id], updates)
            chk == post_init(w.new.discount_curves, w.new.registry, names)
        IN  /\ last.op = "idle"
            /\ Len(heap) < MaxStates
            /\ heap' = [heap EXCEPT ![id] = w.self]
            /\ last' = [op |-> "with_factors", src |-> id, shocks |-> <<>>,
                        updates |-> updates, before |-> heap[id],
                        known |-> names, kind |-> chk,
                        state |-> IF chk = "ok" THEN w.new ELSE NoState,
                        fresh |-> w.fresh]
            /\ UNCHANGED <<names, pfeVars>>

\* The caller keeps the MarketState the call returned
Keep ==
    /\ last.op \in {"apply_shocks", "with_factors"}
    /\ last.kind = "ok"
    /\ last.fresh
    /\ heap' = Append(heap, last.state)
    /\ last' = Idle
    /\ UNCHANGED <<names, pfeVars>>

\* The caller drops the result, or handles the exception
Drop ==
    /\ last.op # "idle"
    /\ last' = Idle
    /\ UNCHANGED <<heap, names, pfeVars>>

\* registry.register(name)
Register ==
    \E name \in CurveNames :
        /\ names' = names \cup {name}
        /\ UNCHANGED <<heap, last, pfeVars>>

\* apply_shocks and with_factors as functions of their arguments
ShockNext == ApplyShocks \/ WithFactors \/ Drop \/ Register

SpecShock == ShockInit /\ [][ShockNext]_vars

\* the same, with the returned states kept and used as later arguments
HeapNext == ApplyShocks \/ WithFactors \/ Keep \/ Drop \/ Register

SpecHeap == ShockInit /\ [][HeapNext]_vars

----------------------------------------------------------------------------
(* Part 1: the claims about apply_shocks and MarketState *)

Applied == last.op = "apply_shocks"

Returned == Applied /\ last.kind = "ok"

ShockKeys == {last.shocks[i].key : i \in DOMAIN last.shocks}

\* the positions of the shocks on key k
ShocksOn(k) == {i \in DOMAIN last.shocks : last.shocks[i].key = k}

BaseKeys == DOMAIN last.before.factors

\* C1: in the state apply_shocks returns, a key of the base state that exactly
\* one shock targets holds base + value when that shock is additive ("abs")
\* and base * (1 + value) when it is relative ("rel").
C1_AdditiveRelative ==
    Returned =>
        \A i \in DOMAIN last.shocks :
            LET s == last.shocks[i]
                b == last.before.factors[s.key]
            IN  (s.key \in BaseKeys /\ ShocksOn(s.key) = {i}) =>
                    /\ s.key \in DOMAIN last.state.factors
                    /\ s.shock_type = "abs" => last.state.factors[s.key] = b + s.value
                    /\ s.shock_type = "rel" =>
                           last.state.factors[s.key] = b * (1 + s.value)

\* an additive and a relative shock, each the only one on its key, were applied
C1_Witness ==
    /\ Returned
    /\ Len(last.shocks) = 2
    /\ last.shocks[1].key # last.shocks[2].key
    /\ last.shocks[1].shock_type = "abs"
    /\ last.shocks[2].shock_type = "rel"
    /\ last.state.factors[last.shocks[2].key] # last.before.factors[last.shocks[2].key]

\* C2: apply_shocks returns a new MarketState object in which every key no
\* shock targets keeps its base value, and discount_curves, meta and registry
\* are those of the input; the input state is as it was before the call; an
\* empty ShockSet gives a new object with the factor values of the input.
C2_Frame ==
    Returned =>
        /\ last.fresh
        /\ \A k \in BaseKeys \ ShockKeys :
              /\ k \in DOMAIN last.state.factors
              /\ last.state.factors[k] = last.before.factors[k]
        /\ last.state.discount_curves = last.before.discount_curves
        /\ last.state.meta = last.before.meta
        /\ last.state.registry = last.before.registry
        /\ heap[last.src] = last.before
        /\ last.shocks = <<>> => last.state.factors = last.before.factors

\* one key was shocked and changed, the other passed through, in a state with
\* a registry and a discount curve
C2_Witness ==
    /\ Returned
    /\ ShockKeys = {SpotKey}
    /\ BaseKeys = Keys
    /\ last.state.factors[SpotKey] # last.before.factors[SpotKey]
    /\ last.before.registry = TheRegistry
    /\ DOMAIN last.before.discount_curves # {}

\* C3 as the claim states it: with a shock on a key the base state lacks,
\* apply_shocks returns a state whose keys are the base keys and the shock keys.
C3_NewFactors ==
    (Applied /\ ShockKeys \ BaseKeys # {}
        /\ \A i \in DOMAIN last.shocks : last.shocks[i].shock_type \in {"abs", "rel"}
        /\ last.before.registry = NoRegistry) =>
        /\ last.kind = "ok"
        /\ DOMAIN last.state.factors = BaseKeys \cup ShockKeys

\* the first shock whose key the base state lacks
FirstAbsent ==
    CHOOSE i \in DOMAIN last.shocks :
        /\ last.shocks[i].key \notin BaseKeys
        /\ \A j \in 1..(i - 1) : last.shocks[j].key \in BaseKeys

\* C3 (amended): apply_shocks never adds a factor. With a shock on a key the
\* base state lacks it raises and returns no state: the KeyError "Missing
\* market factor" of state.get when the shocks before that one are of a known
\* type and no curve-id check fails (no registry), an earlier error otherwise.
\* A state it returns has exactly the keys of the base state.
C3_NoNewFactors ==
    /\ (Applied /\ ShockKeys \ BaseKeys # {}) =>
          /\ last.kind # "ok"
          /\ last.state = NoState
          /\ (/\ last.before.registry = NoRegistry
              /\ \A j \in 1..(FirstAbsent - 1) :
                    last.shocks[j].shock_type \in {"abs", "rel"})
                => last.kind = KeyErr
    /\ Returned =>
          /\ ShockKeys \subseteq BaseKeys
          /\ DOMAIN last.state.factors = BaseKeys

\* a known-type shock on an absent key, after a shock that was applied, raised
\* the KeyError
C3_Witness ==
    /\ Applied
    /\ Len(last.shocks) = 2
    /\ last.shocks[1].key \in BaseKeys
    /\ last.shocks[2].key \notin BaseKeys
    /\ last.shocks[2].shock_type = "abs"
    /\ last.kind = KeyErr

\* the last shock on key k
LastOn(k) == last.shocks[CHOOSE i \in ShocksOn(k) : \A j \in ShocksOn(k) : j <= i]

\* C4: with several shocks on one key the last one wins: the key holds the
\* last such shock applied to the base value, whatever the earlier ones were.
C4_LastWins ==
    Returned =>
        \A k \in ShockKeys :
            LET s == LastOn(k)
                b == last.before.factors[k]
            IN  last.state.factors[k] =
                    IF s.shock_type = "abs" THEN b + s.value ELSE b * (1 + s.value)

\* two shocks on one key, where applying both in turn, or the first alone,
\* would give another value than the last alone
C4_Witness ==
    /\ Returned
    /\ Len(last.shocks) = 2
    /\ last.shocks[1].key = last.shocks[2].key
    /\ last.shocks[1].shock_type = "rel"
    /\ last.shocks[2].shock_type = "abs"
    /\ last.shocks[1].value = 2
    /\ last.shocks[2].value = -1

Perms(n) == {p \in [1..n -> 1..n] : \A i, j \in 1..n : p[i] = p[j] => i = j}

Permuted(q, p) == [i \in DOMAIN q |-> q[p[i]]]

DistinctKeys == \A i, j \in DOMAIN last.shocks :
                    last.shocks[i].key = last.shocks[j].key => i = j

\* C5: for shocks on pairwise distinct keys, apply_shocks on any permutation
\* of the ShockSet returns a state exactly when it does on the ShockSet, and
\* then with the same factor values.
C5_OrderIndependent ==
    (Applied /\ DistinctKeys) =>
        \A p \in Perms(Len(last.shocks)) :
            LET r == apply_shocks(last.before, last.known, Permuted(last.shocks, p))
            IN  /\ (r.kind = "ok") = (last.kind = "ok")
                /\ r.kind = "ok" => r.state.factors = last.state.factors

\* two shocks on two keys were applied, and both changed their key
C5_Witness ==
    /\ Returned
    /\ Len(last.shocks) = 2
    /\ DistinctKeys
    /\ \A k \in ShockKeys : last.state.factors[k] # last.before.factors[k]

UnknownTypes == {i \in DOMAIN last.shocks : last.shocks[i].shock_type \notin {"abs", "rel"}}

\* C6 as the claim states it: every ShockSet with a shock of unknown type
\* makes apply_shocks raise ValueError "Unknown shock_type".
C6_UnknownTypeAlways ==
    (Applied /\ UnknownTypes # {}) => last.kind = TypeErr

FirstUnknown == CHOOSE i \in UnknownTypes : \A j \in UnknownTypes : i <= j

\* the shocks up to the first of unknown type whose state.get raises
FailingGets ==
    {i \in 1..FirstUnknown : get(last.before, last.known, last.shocks[i].key).kind # "ok"}

\* C6 (amended): a ShockSet with a shock of unknown type makes apply_shocks
\* raise and return no state. The error is ValueError "Unknown shock_type"
\* when state.get succeeds for every shock up to and including the first one
\* of unknown type (the key is read before the type is looked at); otherwise
\* it is the error of the first such state.get that fails (KeyError "Missing
\* market factor", or the ValueError of the curve-id check).
C6_UnknownType ==
    (Applied /\ UnknownTypes # {}) =>
        /\ last.kind # "ok"
        /\ last.state = NoState
        /\ FailingGets = {} => last.kind = TypeErr
        /\ FailingGets # {} =>
              LET i == CHOOSE x \in FailingGets : \A y \in FailingGets : x <= y
              IN  last.kind = get(last.before, last.known, last.shocks[i].key).kind

\* a shock of unknown type on a present key, after an applied shock, raised
\* "Unknown shock_type"
C6_Witness ==
    /\ Applied
    /\ Len(last.shocks) = 2
    /\ last.shocks[1].shock_type = "rel"
    /\ last.shocks[2].shock_type = "pct"
    /\ last.kind = TypeErr

\* C7 as the claim states it: whatever with_factors, apply_shocks and register
\* calls follow, get(key) on an existing MarketState object ends as it did.
C7_GetStable ==
    [][\A id \in DOMAIN heap : \A k \in Keys :
           get(heap'[id], names', k) = get(heap[id], names, k)]_vars

----------------------------------------------------------------------------
(* Part 2: Monte Carlo PFE *)
(*                                                                         *)
(* Times (horizons, dt, maturities) are Python floats in years.  The model *)
(* counts them in units of 1/Year of a year, so 1.0 is Year and 1.00001 is *)
(* Year + 1.  Money and rates are integers; where the code multiplies by a *)
(* fraction the model rounds the product down to a whole unit.  The        *)
(* confidence is a whole number of percent.                                *)

\* one year, in the model's unit of time
Year == 100000

\* how many paths a call may ask for
MaxPaths == 2

\* how many steps a direct simulator call may ask for
MaxSteps == 2

Abs(x) == IF x < 0 THEN 0 - x ELSE x

\* Python's round(num / den) for den > 0: to the nearest integer, a tie to the even one
round(num, den) ==
    LET q == num \div den
        r == num % den
    IN  IF 2 * r < den THEN q
        ELSE IF 2 * r > den THEN q + 1
        ELSE IF q % 2 = 0 THEN q ELSE q + 1

\* equality instead of numpy's tolerance
isclose_exact(aNum, bNum, den) == aNum = bNum

\* np.isclose(a, b) with numpy's defaults, for a = aNum / den and b = bNum / den:
\* |a - b| <= 1e-8 + 1e-5 * |b|, both sides multiplied by 1e8 * den
isclose(aNum, bNum, den) ==
    Abs(aNum - bNum) <= (den + 1000 * Abs(bNum)) \div 100000000

RECURSIVE insert(_, _)
insert(x, seq) ==
    IF seq = <<>> THEN <<x>>
    ELSE IF x <= Head(seq) THEN <<x>> \o seq
    ELSE <<Head(seq)>> \o insert(x, Tail(seq))

\* the list as it is given
sorted_as_given(seq) == seq

\* Python's sorted()
RECURSIVE sorted(_)
sorted(seq) == IF seq = <<>> THEN <<>> ELSE insert(Head(seq), sorted(Tail(seq)))

ConfidenceErr == "ValueError: confidence must be in (0, 1)"
NumPathsErr == "ValueError: num_paths must be > 0"
DtErr == "ValueError: dt must be > 0"
NoHorizonErr == "ValueError: horizons must contain at least one value"
NegHorizonErr == "ValueError: horizons must be >= 0"
ZeroHorizonErr == "ValueError: max horizon must be > 0"
MaxAlignErr == "ValueError: max horizon must align with dt"
AlignErr == "ValueError: all horizons must align with dt"
NoModelErr == "ValueError: equity_models must contain at least one entry"
NoSpotErr == "ValueError: market_data.spots missing symbol"
NoRateErr == "ValueError: market_data.rates must include 'risk_free'"
SpotErr == "ValueError: spot must be > 0"
NumStepsErr == "ValueError: num_steps must be > 0"
VolErr == "ValueError: vol must be >= 0"
MeanReversionErr == "ValueError: mean_reversion must be >= 0"
KappaErr == "ValueError: kappa must be >= 0"
LongVarErr == "ValueError: long_var must be >= 0"
VolOfVolErr == "ValueError: vol_of_vol must be >= 0"
RhoErr == "ValueError: rho must be in [-1, 1]"
InitialVarErr == "ValueError: initial_var must be >= 0"

\* step_idx = int(round(horizon / dt)), the column of the paths read for a horizon
step_index(horizon, dt) == round(horizon, dt)

\* _validate_confidence: TRUE when it returns, FALSE when it raises
validate_confidence(confidence) == ~(confidence <= 0 \/ confidence >= 100)

BadGrid(e) == [kind |-> e, times |-> <<>>, num_steps |-> 0]

\* _validate_horizons(horizons, dt)
validate_horizons(horizons, dt) ==
    IF dt <= 0 THEN BadGrid(DtErr)
    ELSE IF horizons = <<>> THEN BadGrid(NoHorizonErr)
    ELSE LET times == sorted(horizons)
             max_horizon == times[Len(times)]
             num_steps == round(max_horizon, dt)
         IN  IF times[1] < 0 THEN BadGrid(NegHorizonErr)
             ELSE IF max_horizon = 0 THEN BadGrid(ZeroHorizonErr)
             ELSE IF ~isclose(max_horizon, num_steps * dt, Year) THEN BadGrid(MaxAlignErr)
             ELSE IF \E i \in DOMAIN times :
                        ~isclose(times[i], round(times[i], dt) * dt, dt)
                  THEN BadGrid(AlignErr)
             ELSE [kind |-> "ok", times |-> times, num_steps |-> num_steps]

----------------------------------------------------------------------------
(* numpy's Generator, as far as the code depends on it: a generator is a    *)
(* state; default_rng(seed) of an integer seed is a function of the seed,   *)
(* default_rng(None) starts from entropy of the operating system; a draw    *)
(* advances the state and returns a function of the new state.              *)
(* The model's generator has eight states.                                  *)

\* the operating system's entropy, as far as two calls can tell it apart
Entropy == {0, 1}

\* a generator that ignores its seed
default_rng_unseeded(seed, entropy) == entropy

\* np.random.default_rng(seed); seed is <<>> for None and <<n>> for the integer n
default_rng(seed, entropy) ==
    IF seed = <<>> THEN entropy ELSE (3 * seed[1] + 1) % 8

advance(g) == (5 * g + 3) % 8

\* the state of a generator started at g after n draws
RECURSIVE rng_at(_, _)
rng_at(g, n) == IF n = 0 THEN g ELSE rng_at(advance(g), n - 1)

\* rng.integers(0, 2**32 - 1) and rng.standard_normal(), as values of the state
\* the draw has reached
integers(g) == g

standard_normal(g) == (g % 3) - 1

\* sqrt(dt), in tenths, rounded down
sqrt_dt(dt) ==
    CHOOSE r \in 0..20 : r * r * Year <= 100 * dt /\ (r + 1) * (r + 1) * Year > 100 * dt

----------------------------------------------------------------------------
(* The path simulators.  A result is the exception raised or the array of   *)
(* paths (paths[p][t], p in 1..num_paths, t in 0..num_steps), with the      *)
(* number of random draws made.                                             *)

NoPaths == <<>>

SimFailed(e) == [kind |-> e, paths |-> NoPaths, draws |-> 0]

\* shocks[p, t] of rng.standard_normal(size=(num_paths, num_steps)): rows are filled in order
shock_at(g, num_steps, p, t) == standard_normal(rng_at(g, (p - 1) * num_steps + t))

\* np.cumsum(log_steps, axis=1)[p, t], for drift and diffusion = root * shocks
RECURSIVE cumsum(_, _, _, _, _, _)
cumsum(g, drift, root, num_steps, p, t) ==
    IF t = 0 THEN 0
    ELSE cumsum(g, drift, root, num_steps, p, t - 1)
         + drift + (root * shock_at(g, num_steps, p, t)) \div 10

\* simulate_gbm_paths; exp(x) is taken to first order, 1 + x
simulate_gbm_paths(spot, params, dt, num_steps, num_paths, seed, entropy) ==
    IF spot <= 0 THEN SimFailed(SpotErr)
    ELSE IF dt <= 0 THEN SimFailed(DtErr)
    ELSE IF num_steps <= 0 THEN SimFailed(NumStepsErr)
    ELSE IF num_paths <= 0 THEN SimFailed(NumPathsErr)
    ELSE IF params.vol < 0 THEN SimFailed(VolErr)
    ELSE LET rng == default_rng(seed, entropy)
             drift == ((2 * params.drift - params.vol * params.vol) * dt) \div (2 * Year)
             root == params.vol * sqrt_dt(dt)
         IN  [kind |-> "ok",
              paths |-> [p \in 1..num_paths |-> [t \in 0..num_steps |->
                            IF t = 0 THEN spot
                            ELSE spot * (1 + cumsum(rng, drift, root, num_steps, p, t))]],
              draws |-> num_paths * num_steps]

\* an Euler scheme that starts every path at the long-run rate
RECURSIVE euler_rate_from_long_rate(_, _, _, _, _, _, _, _)
euler_rate_from_long_rate(rate, g, params, dt, root, num_steps, p, t) ==
    IF t = 0 THEN params.long_rate
    ELSE LET prev == euler_rate_from_long_rate(rate, g, params, dt, root, num_steps, p, t - 1)
         IN  prev
             + (params.mean_reversion * (params.long_rate - prev) * dt) \div Year
             + (root * shock_at(g, num_steps, p, t)) \div 10

\* rates[p, t] of the Euler scheme both short-rate simulators run
\* (root is vol * sqrt(dt), in tenths)
RECURSIVE euler_rate(_, _, _, _, _, _, _, _)
euler_rate(rate, g, params, dt, root, num_steps, p, t) ==
    IF t = 0 THEN rate
    ELSE LET prev == euler_rate(rate, g, params, dt, root, num_steps, p, t - 1)
         IN  prev
             + (params.mean_reversion * (params.long_rate - prev) * dt) \div Year
             + (root * shock_at(g, num_steps, p, t)) \div 10

\* simulate_vasicek_paths
simulate_vasicek_paths(rate, params, dt, num_steps, num_paths, seed, entropy) ==
    IF dt <= 0 THEN SimFailed(DtErr)
    ELSE IF num_steps <= 0 THEN SimFailed(NumStepsErr)
    ELSE IF num_paths <= 0 THEN SimFailed(NumPathsErr)
    ELSE IF params.mean_reversion < 0 THEN SimFailed(MeanReversionErr)
    ELSE IF params.vol < 0 THEN SimFailed(VolErr)
    ELSE LET rng == default_rng(seed, entropy)
             root == params.vol * sqrt_dt(dt)
         IN  [kind |-> "ok",
              paths |-> [p \in 1..num_paths |-> [t \in 0..num_steps |->
                            euler_rate(rate, rng, params, dt, root, num_steps, p, t)]],
              draws |-> num_paths * num_steps]

\* simulate_hull_white_paths
simulate_hull_white_paths(rate, params, dt, num_steps, num_paths, seed, entropy) ==
    IF dt <= 0 THEN SimFailed(DtErr)
    ELSE IF num_steps <= 0 THEN SimFailed(NumStepsErr)
    ELSE IF num_paths <= 0 THEN SimFailed(NumPathsErr)
    ELSE IF params.mean_reversion < 0 THEN SimFailed(MeanReversionErr)
    ELSE IF params.vol < 0 THEN SimFailed(VolErr)
    ELSE LET rng == default_rng(seed, entropy)
             root == params.vol * sqrt_dt(dt)
         IN  [kind |-> "ok",
              paths |-> [p \in 1..num_paths |-> [t \in 0..num_steps |->
                            euler_rate(rate, rng, params, dt, root, num_steps, p, t)]],
              draws |-> num_paths * num_steps]

Max(a, b) == IF a >= b THEN a ELSE b

\* sqrt of a variance, rounded down
sqrt_var(v) == CHOOSE r \in 0..20 : r * r <= v /\ (r + 1) * (r + 1) > v

\* w2[p, t] = rho * z1 + sqrt(max(1 - rho * rho, 0)) * z2 for rho in {-1, 0, 1};
\* z2 is drawn after the num_paths * num_steps values of z1
w2_at(g, rho, num_steps, num_paths, p, t) ==
    rho * shock_at(g, num_steps, p, t)
        + (1 - rho * rho) * shock_at(rng_at(g, num_paths * num_steps), num_steps, p, t)

\* spots[p, t] and vars_[p, t] of the full truncation Euler scheme of
\* simulate_heston_paths; exp(x) is taken to first order
RECURSIVE heston_step(_, _, _, _, _, _, _, _)
heston_step(spot, g, params, dt, num_steps, num_paths, p, t) ==
    IF t = 0 THEN [spot |-> spot, var |-> params.initial_var]
    ELSE LET prev == heston_step(spot, g, params, dt, num_steps, num_paths, p, t - 1)
             prev_var == Max(prev.var, 0)
             root == sqrt_var(prev_var) * sqrt_dt(dt)
         IN  [spot |-> prev.spot
                       * (1 + ((2 * params.drift - prev_var) * dt) \div (2 * Year)
                            + (root * shock_at(g, num_steps, p, t)) \div 10),
              var |-> Max(prev_var
                          + (params.kappa * (params.long_var - prev_var) * dt) \div Year
                          + (params.vol_of_vol * root
                             * w2_at(g, params.rho, num_steps, num_paths, p, t)) \div 10,
                          0)]

\* simulate_heston_paths
simulate_heston_paths(spot, params, dt, num_steps, num_paths, seed, entropy) ==
    IF spot <= 0 THEN SimFailed(SpotErr)
    ELSE IF dt <= 0 THEN SimFailed(DtErr)
    ELSE IF num_steps <= 0 THEN SimFailed(NumStepsErr)
    ELSE IF num_paths <= 0 THEN SimFailed(NumPathsErr)
    ELSE IF params.kappa < 0 THEN SimFailed(KappaErr)
    ELSE IF params.long_var < 0 THEN SimFailed(LongVarErr)
    ELSE IF params.vol_of_vol < 0 THEN SimFailed(VolOfVolErr)
    ELSE IF ~(0 - 1 <= params.rho /\ params.rho <= 1) THEN SimFailed(RhoErr)
    ELSE IF params.initial_var < 0 THEN SimFailed(InitialVarErr)
    ELSE [kind |-> "ok",
          paths |-> [p \in 1..num_paths |-> [t \in 0..num_steps |->
                        heston_step(spot, default_rng(seed, entropy), params, dt, num_steps,
                                    num_paths, p, t).spot]],
          draws |-> 2 * num_paths * num_steps]

----------------------------------------------------------------------------
(* Pricing, as far as the Monte Carlo profile uses it *)

\* PricingEngine._spot_for
spot_for(instrument, market_data) ==
    IF instrument.symbol \in DOMAIN market_data.spots
    THEN market_data.spots[instrument.symbol]
    ELSE instrument.spot

\* PricingEngine.price_instrument for EquitySpot and EquityForward (no dividends);
\* the discount factor exp(-rate * maturity) is taken to first order
price_instrument(instrument, market_data) ==
    IF instrument.type = "EquitySpot" THEN spot_for(instrument, market_data)
    ELSE spot_for(instrument, market_data)
         - (instrument.strike
            - (instrument.strike * market_data.rates["risk_free"] * instrument.maturity)
              \div Year)

RECURSIVE price_positions(_, _, _)
price_positions(portfolio, market_data, i) ==
    IF i = 0 THEN 0
    ELSE price_positions(portfolio, market_data, i - 1)
         + price_instrument(portfolio[i].instrument, market_data) * portfolio[i].quantity

\* PricingEngine.price_portfolio(portfolio, market_data).total
price_portfolio(portfolio, market_data) ==
    price_positions(portfolio, market_data, Len(portfolio))

\* a _roll_instrument that lets the maturity go below zero
roll_instrument_unfloored(instrument, horizon) ==
    IF instrument.type \in {"EquityForward", "FixedRateBond", "ZeroCouponBond", "EuropeanOption"}
    THEN [instrument EXCEPT !.maturity = instrument.maturity - horizon]
    ELSE instrument

\* _roll_instrument: a new object of the same class with the same fields but
\* the maturity, or the instrument itself
roll_instrument(instrument, horizon) ==
    IF instrument.type \in {"EquityForward", "FixedRateBond", "ZeroCouponBond", "EuropeanOption"}
    THEN [instrument EXCEPT !.maturity = Max(instrument.maturity - horizon, 0)]
    ELSE instrument

\* _roll_portfolio
roll_portfolio(portfolio, horizon) ==
    [i \in DOMAIN portfolio |->
        [portfolio[i] EXCEPT !.instrument = roll_instrument(portfolio[i].instrument, horizon)]]

RECURSIVE SumTo(_, _)
SumTo(seq, n) == IF n = 0 THEN 0 ELSE SumTo(seq, n - 1) + seq[n]

\* the quantile at the complementary level
quantile_reversed(exposures, confidence) ==
    LET e   == sorted(exposures)
        pos == (Len(e) - 1) * (100 - confidence)
        lo  == pos \div 100
        hi  == IF lo + 2 <= Len(e) THEN lo + 2 ELSE Len(e)
    IN  100 * e[lo + 1] + (pos % 100) * (e[hi] - e[lo + 1])

\* np.quantile(exposures, confidence, method="linear"), in hundredths of a unit
quantile(exposures, confidence) ==
    LET e   == sorted(exposures)
        pos == (Len(e) - 1) * confidence
        lo  == pos \div 100
        hi  == IF lo + 2 <= Len(e) THEN lo + 2 ELSE Len(e)
    IN  100 * e[lo + 1] + (pos % 100) * (e[hi] - e[lo + 1])

\* np.mean(exposures), in hundredths of a unit, rounded down
mean(exposures) == (100 * SumTo(exposures, Len(exposures))) \div Len(exposures)

----------------------------------------------------------------------------
(* monte_carlo_pfe_profile.  Besides what the call returns or raises, the   *)
(* result records what happened inside it: the sub-seed and the paths of    *)
(* each simulated factor, how many simulator calls were made and how many   *)
(* random numbers were drawn.                                               *)

NoMap == <<>>

PfeFailed(e, sims, draws) ==
    [kind |-> e, pfe_profile |-> NoMap, expected_exposure |-> NoMap, horizons |-> <<>>,
     sub_seeds |-> NoMap, paths |-> NoMap, sims |-> sims, draws |-> draws]

Range(seq) == {seq[i] : i \in DOMAIN seq}

\* lines 497-577: the generators, the paths and the profile, once the inputs are accepted
simulate_and_measure(portfolio, market_data, times, dt, num_steps, num_paths, confidence, equity_models, rate_model, threshold, value_adjustment, seed, entropy) ==
    LET rng == default_rng(seed, entropy)
        n == Len(equity_models)
        model_seed == [i \in 1..n |-> integers(rng_at(rng, i))]
        equity_paths == [i \in 1..n |->
            simulate_gbm_paths(market_data.spots[equity_models[i].symbol],
                               equity_models[i].params, dt, num_steps, num_paths,
                               <<model_seed[i]>>, entropy)]
        rate_seed == integers(rng_at(rng, n + 1))
        base_rate == market_data.rates["risk_free"]
        rate_paths ==
            IF rate_model.type = "None"
            THEN [kind |-> "ok",
                  paths |-> [p \in 1..num_paths |-> [t \in 0..num_steps |-> base_rate]],
                  draws |-> 0]
            ELSE IF rate_model.type = "Vasicek"
            THEN simulate_vasicek_paths(base_rate, rate_model, dt, num_steps, num_paths,
                                        <<rate_seed>>, entropy)
            ELSE simulate_hull_white_paths(base_rate, rate_model, dt, num_steps, num_paths,
                                           <<rate_seed>>, entropy)
        rated == IF rate_model.type = "None" THEN 0 ELSE 1
        bad == {i \in 1..n : equity_paths[i].kind # "ok"}
        first_bad == CHOOSE i \in bad : \A j \in bad : i <= j
        exposure(horizon, p) ==
            LET step_idx == step_index(horizon, dt)
                rolled == roll_portfolio(portfolio, horizon)
                spots == [s \in DOMAIN market_data.spots |->
                            IF \E i \in 1..n : equity_models[i].symbol = s
                            THEN equity_paths[CHOOSE i \in 1..n :
                                     equity_models[i].symbol = s].paths[p][step_idx]
                            ELSE market_data.spots[s]]
                rates == [market_data.rates EXCEPT !["risk_free"] = rate_paths.paths[p][step_idx]]
                value == price_portfolio(rolled, [spots |-> spots, rates |-> rates])
            IN  Max(value - value_adjustment - threshold, 0)
        exposures == [h \in Range(times) |-> [p \in 1..num_paths |-> exposure(h, p)]]
        equity_draws == [i \in 1..n |-> equity_paths[i].draws]
    IN  IF bad # {}
        THEN PfeFailed(equity_paths[first_bad].kind, first_bad,
                       first_bad + SumTo(equity_draws, first_bad - 1))
        ELSE IF rate_paths.kind # "ok"
        THEN PfeFailed(rate_paths.kind, n + 1, n + 1 + SumTo(equity_draws, n))
        ELSE [kind |-> "ok",
              pfe_profile |-> [h \in Range(times) |-> quantile(exposures[h], confidence)],
              expected_exposure |-> [h \in Range(times) |-> mean(exposures[h])],
              horizons |-> times,
              sub_seeds |-> [f \in Range([i \in 1..n |-> equity_models[i].symbol])
                                   \cup (IF rated = 1 THEN {"risk_free"} ELSE {}) |->
                                IF f = "risk_free" THEN rate_seed
                                ELSE model_seed[CHOOSE i \in 1..n : equity_models[i].symbol = f]],
              paths |-> [f \in Range([i \in 1..n |-> equity_models[i].symbol])
                               \cup (IF rated = 1 THEN {"risk_free"} ELSE {}) |->
                            IF f = "risk_free" THEN rate_paths.paths
                            ELSE equity_paths[CHOOSE i \in 1..n :
                                     equity_models[i].symbol = f].paths],
              sims |-> n + rated,
              draws |-> n + rated + SumTo(equity_draws, n) + rate_paths.draws]

\* monte_carlo_pfe_profile; equity_models is the dict as the sequence of its items
monte_carlo_pfe_profile(portfolio, market_data, horizons, dt, num_paths, confidence, equity_models, rate_model, threshold, value_adjustment, seed, entropy) ==
    LET grid == validate_horizons(horizons, dt)
    IN  IF ~validate_confidence(confidence) THEN PfeFailed(ConfidenceErr, 0, 0)
        ELSE IF num_paths <= 0 THEN PfeFailed(NumPathsErr, 0, 0)
        ELSE IF grid.kind # "ok" THEN PfeFailed(grid.kind, 0, 0)
        ELSE IF equity_models = <<>> THEN PfeFailed(NoModelErr, 0, 0)
        ELSE IF \E i \in DOMAIN equity_models :
                   equity_models[i].symbol \notin DOMAIN market_data.spots
             THEN PfeFailed(NoSpotErr, 0, 0)
        ELSE IF "risk_free" \notin DOMAIN market_data.rates THEN PfeFailed(NoRateErr, 0, 0)
        ELSE simulate_and_measure(portfolio, market_data, grid.times, dt, grid.num_steps,
                                  num_paths, confidence, equity_models, rate_model,
                                  threshold, value_adjustment, seed, entropy)

----------------------------------------------------------------------------
(* The state machine of Part 2 *)

Seeds == {<<>>, <<1>>}

HorizonLists ==
    {<<>>, <<0>>, <<0 - Year, Year>>, <<0, Year>>, <<Year \div 2, Year>>,
     <<2 * Year, Year>>, <<Year + 1>>, <<Year + 10>>}

Dts == {0, Year \div 2, Year}

Confidences == {0, 95, 100}

Configs ==
    [seed : Seeds, horizons : HorizonLists, dt : Dts, num_paths : 0..MaxPaths,
     confidence : Confidences]

TheMarket == [spots |-> [s \in {"ABC", "XYZ"} |-> IF s = "ABC" THEN 3 ELSE 5],
              rates |-> [r \in {"risk_free"} |-> 1]]

ThePortfolio ==
    << [instrument |-> [type |-> "EquitySpot", symbol |-> "ABC", spot |-> 3,
                        strike |-> 0, maturity |-> 0],
        quantity |-> 2],
       [instrument |-> [type |-> "EquityForward", symbol |-> "XYZ", spot |-> 5,
                        strike |-> 4, maturity |-> 2 * Year],
        quantity |-> 1] >>

GbmOf(symbol) ==
    [symbol |-> symbol,
     params |-> IF symbol = "ABC" THEN [drift |-> 1, vol |-> 1] ELSE [drift |-> 0, vol |-> 2]]

\* the equity_models dicts a call may be given, in the order of their items
EquityModels ==
    {<<>>, <<GbmOf("ABC")>>, <<GbmOf("XYZ")>>, <<GbmOf("ABC"), GbmOf("XYZ")>>,
     <<GbmOf("XYZ"), GbmOf("ABC")>>, <<GbmOf("ZZZ")>>}

RateModels ==
    {[type |-> t, mean_reversion |-> 1, long_rate |-> 2, vol |-> 1] :
        t \in {"None", "Vasicek", "HullWhite"}}

NoCall == [op |-> "idle", equity_models |-> <<>>, rate_model |-> <<>>, seed |-> <<>>,
           num_steps |-> 0, mixed |-> FALSE, out |-> <<>>]

PfeInit ==
    /\ heap = <<>>
    /\ names = {}
    /\ last = Idle
    /\ cfg \in Configs
    /\ ref = NoCall
    /\ cur = NoCall

\* ref.mixed turns TRUE when a call other than a repetition of ref is made after it
Mixing(op, equity_models, rate_model, seed) ==
    IF ref.op = "idle" \/ (op = ref.op /\ equity_models = ref.equity_models
                           /\ rate_model = ref.rate_model /\ seed = ref.seed)
    THEN ref
    ELSE [ref EXCEPT !.mixed = TRUE]

\* A call of monte_carlo_pfe_profile with the seed, grid and sizes of cfg
MonteCarloPfe ==
    \E equity_models \in EquityModels, rate_model \in RateModels, entropy \in Entropy :
        /\ cur.op = "idle"
        /\ cur' = [op |-> "pfe", equity_models |-> equity_models,
                   rate_model |-> rate_model, seed |-> cfg.seed, num_steps |-> 0,
                   mixed |-> FALSE,
                   out |-> monte_carlo_pfe_profile(ThePortfolio, TheMarket, cfg.horizons,
                               cfg.dt, cfg.num_paths, cfg.confidence, equity_models,
                               rate_model, 1, 0, cfg.seed, entropy)]
        /\ ref' = Mixing("pfe", equity_models, rate_model, cfg.seed)
        /\ UNCHANGED <<heap, names, last, cfg>>

\* _validate_horizons on the horizons and the dt of cfg, as monte_carlo_pfe_profile
\* calls it
ValidateHorizons ==
    /\ cur.op = "idle"
    /\ cur' = [op |-> "validate_horizons", equity_models |-> <<>>, rate_model |-> <<>>,
               seed |-> <<>>, num_steps |-> 0, mixed |-> FALSE,
               out |-> validate_horizons(cfg.horizons, cfg.dt)]
    /\ UNCHANGED <<heap, names, last, cfg, ref>>

\* the parameters of the direct simulator calls
SimParams == [drift |-> 1, mean_reversion |-> 1, long_rate |-> 2, vol |-> 1]

HestonSimParams ==
    [kappa |-> 1, long_var |-> 1, vol_of_vol |-> 1, rho |-> 0, initial_var |-> 1, drift |-> 1]

\* the spot and the rate the direct simulator calls start from
SimSpot == 3

SimRate == 1

\* A direct call of one of the simulators
Simulate ==
    \E op \in {"gbm", "heston", "vasicek", "hull_white"}, seed \in Seeds,
       num_steps \in 0..MaxSteps, entropy \in Entropy :
        /\ cur.op = "idle"
        /\ cur' = [op |-> op, equity_models |-> <<>>, rate_model |-> <<>>, seed |-> seed,
                   num_steps |-> num_steps, mixed |-> FALSE,
                   out |-> IF op = "gbm"
                           THEN simulate_gbm_paths(SimSpot, SimParams, cfg.dt, num_steps,
                                                   cfg.num_paths, seed, entropy)
                           ELSE IF op = "heston"
                           THEN simulate_heston_paths(SimSpot, HestonSimParams, cfg.dt,
                                                      num_steps, cfg.num_paths, seed, entropy)
                           ELSE IF op = "vasicek"
                           THEN simulate_vasicek_paths(SimRate, SimParams, cfg.dt, num_steps,
                                                       cfg.num_paths, seed, entropy)
                           ELSE simulate_hull_white_paths(SimRate, SimParams, cfg.dt,
                                                          num_steps, cfg.num_paths, seed,
                                                          entropy)]
        /\ ref' = Mixing(op, <<>>, <<>>, seed)
        /\ UNCHANGED <<heap, names, last, cfg>>

\* The caller keeps the result of the run to compare later runs with it
KeepResult ==
    /\ cur.op = "pfe"
    /\ cur.out.kind = "ok"
    /\ ref.op = "idle"
    /\ ref' = cur
    /\ cur' = NoCall
    /\ UNCHANGED <<heap, names, last, cfg>>

\* The caller drops the result, or handles the exception
DropResult ==
    /\ cur.op # "idle"
    /\ cur' = NoCall
    /\ UNCHANGED <<heap, names, last, cfg, ref>>

PfeNext == ValidateHorizons \/ MonteCarloPfe \/ Simulate \/ KeepResult \/ DropResult

SpecPfe == PfeInit /\ [][PfeNext]_vars

----------------------------------------------------------------------------
(* Part 2: the claims about monte_carlo_pfe_profile *)

\* ref and cur are two Monte Carlo runs with the seed, grid and sizes of cfg
TwoRuns == ref.op = "pfe" /\ cur.op = "pfe"

SameModels == cur.equity_models = ref.equity_models /\ cur.rate_model = ref.rate_model

\* C8: with the same non-None top-level seed, a factor that is simulated in two
\* runs gets the same sub-seed and the same paths in both, whatever other
\* symbols or rate model the two runs were given and in whatever order.
C8_SubSeedIndependent ==
    (TwoRuns /\ cur.out.kind = "ok" /\ cfg.seed # <<>>) =>
        \A f \in DOMAIN ref.out.sub_seeds \cap DOMAIN cur.out.sub_seeds :
            /\ cur.out.sub_seeds[f] = ref.out.sub_seeds[f]
            /\ cur.out.paths[f] = ref.out.paths[f]

AlignErrs == {MaxAlignErr, AlignErr}

\* the validations that precede the alignment test all pass
EarlierOk ==
    /\ 0 < cfg.confidence /\ cfg.confidence < 100
    /\ cfg.num_paths > 0
    /\ cfg.dt > 0
    /\ cfg.horizons # <<>>
    /\ \A i \in DOMAIN cfg.horizons : cfg.horizons[i] >= 0
    /\ \E i \in DOMAIN cfg.horizons : cfg.horizons[i] > 0

IsMultiple(h, dt) == IF dt = 0 THEN h = 0 ELSE h % dt = 0

SomeNotMultiple == \E i \in DOMAIN cfg.horizons : ~IsMultiple(cfg.horizons[i], cfg.dt)

\* the multiple of dt nearest to h, as a number of steps
Nearest(h, dt) ==
    CHOOSE n \in 0..((h \div dt) + 1) :
        \A m \in 0..((h \div dt) + 1) : Abs(h - n * dt) <= Abs(h - m * dt)

\* |h - n * dt| / den <= 1e-8 + 1e-5 * (n * dt / den) for the nearest multiple n * dt
WithinTolerance(h, dt, den) ==
    LET n == Nearest(h, dt)
    IN  /\ Abs(h - n * dt) <= 100
        /\ 100000 * Abs(h - n * dt) <= (den \div 1000) + n * dt

LargestHorizon == CHOOSE h \in Range(cfg.horizons) : \A g \in Range(cfg.horizons) : g <= h

\* the largest horizon, in years, or some horizon, in steps, is farther from
\* the nearest multiple of dt than numpy's tolerance
OutOfTolerance ==
    \/ ~WithinTolerance(LargestHorizon, cfg.dt, Year)
    \/ \E i \in DOMAIN cfg.horizons : ~WithinTolerance(cfg.horizons[i], cfg.dt, cfg.dt)

\* C10, as stated: when the earlier validations pass and some horizon is not an
\* integer multiple of dt, the call raises an alignment error before any path
\* is simulated.
C10_NotMultipleRaises ==
    (cur.op = "pfe" /\ EarlierOk /\ SomeNotMultiple) =>
        (cur.out.kind \in AlignErrs /\ cur.out.sims = 0)

\* C10, amended: an alignment error is raised exactly when the earlier
\* validations pass and some horizon is out of numpy's tolerance of a multiple
\* of dt; it is raised before any simulator call and any random draw; it is
\* not raised when every horizon is an integer multiple of dt.
C10_Alignment ==
    cur.op = "pfe" =>
        /\ (cur.out.kind \in AlignErrs) <=> (EarlierOk /\ OutOfTolerance)
        /\ (cur.out.kind \in AlignErrs) => (cur.out.sims = 0 /\ cur.out.draws = 0)
        /\ (EarlierOk /\ ~SomeNotMultiple) => (cur.out.kind \notin AlignErrs)

\* horizons = [0.5, 1.0] with dt = 1.0 are rejected before any simulation
C10_Witness ==
    /\ cur.op = "pfe"
    /\ cfg.horizons = <<Year \div 2, Year>>
    /\ cfg.dt = Year
    /\ cur.out.kind = AlignErr
    /\ cur.out.sims = 0

----------------------------------------------------------------------------
(* Part 3: scenario PFE, analytic PFE and VaR *)
(*                                                                         *)
(* PnLs, returns, thresholds and weights are integers.  A quantile or a    *)
(* mean is counted in hundredths of a unit, as in Part 2.  An array, as    *)
(* np.asarray builds it, is [ndim, rows]: rows lists the rows of a 2-D     *)
(* array, and the values of a 1-D array as rows of one value.              *)

\* how many scenarios (or observations) an array holds at most
MaxScenarios == 2

\* how many positions (or assets) an array holds at most
MaxPositions == 2

NoPnlErr == "ValueError: scenario_pnls must contain at least one value"
DimErr == "ValueError: scenario_pnls must be 1D or 2D"
UnderlyingErr == "ValueError: raised by _extract_underlying_params"
NotAnOptionErr == "TypeError: instrument must be a EuropeanOption"

\* data.size
size(array) == IF array.rows = <<>> THEN 0 ELSE Len(array.rows) * Len(array.rows[1])

\* np.sum(row)
row_sum(row) == SumTo(row, Len(row))

\* the row itself, negative parts included
positive_parts_all(row) == row

\* np.maximum(row, 0.0)
positive_parts(row) == [j \in DOMAIN row |-> Max(row[j], 0)]

\* the exposures without the floor at zero
scenario_exposures_unfloored(array, threshold, netting) ==
    IF size(array) = 0 THEN [kind |-> NoPnlErr, exposures |-> <<>>]
    ELSE IF array.ndim \notin {1, 2} THEN [kind |-> DimErr, exposures |-> <<>>]
    ELSE [kind |-> "ok",
          exposures |-> [i \in DOMAIN array.rows |->
                            (IF array.ndim = 1 THEN array.rows[i][1]
                             ELSE IF netting THEN row_sum(array.rows[i])
                             ELSE row_sum(positive_parts(array.rows[i]))) - threshold]]

\* _scenario_exposures
scenario_exposures(array, threshold, netting) ==
    IF size(array) = 0 THEN [kind |-> NoPnlErr, exposures |-> <<>>]
    ELSE IF array.ndim \notin {1, 2} THEN [kind |-> DimErr, exposures |-> <<>>]
    ELSE LET netted == [i \in DOMAIN array.rows |->
                           IF array.ndim = 1 THEN array.rows[i][1]
                           ELSE IF netting THEN row_sum(array.rows[i])
                           ELSE row_sum(positive_parts(array.rows[i]))]
         IN  [kind |-> "ok",
              exposures |-> [i \in DOMAIN array.rows |-> Max(netted[i] - threshold, 0)]]

ScenarioFailed(e) == [kind |-> e, pfe |-> 0, confidence |-> 0, threshold |-> 0,
                      netting |-> FALSE, num_scenarios |-> 0]

\* scenario_pfe; pfe is in hundredths
scenario_pfe(array, confidence, threshold, netting) ==
    IF ~validate_confidence(confidence) THEN ScenarioFailed(ConfidenceErr)
    ELSE LET e == scenario_exposures(array, threshold, netting)
         IN  IF e.kind # "ok" THEN ScenarioFailed(e.kind)
             ELSE [kind |-> "ok", pfe |-> quantile(e.exposures, confidence),
                   confidence |-> confidence, threshold |-> threshold,
                   netting |-> netting, num_scenarios |-> Len(e.exposures)]

\* thresholds.get(horizon, 0.0); a threshold is a number or a mapping
threshold_for(threshold, horizon) ==
    IF ~threshold.is_map THEN threshold.value
    ELSE IF horizon \in DOMAIN threshold.map THEN threshold.map[horizon]
    ELSE 0

\* scenario_pfe_profile; by_horizon is the mapping as the sequence of its items
scenario_pfe_profile(by_horizon, confidence, threshold, netting) ==
    LET results == [i \in DOMAIN by_horizon |->
                       scenario_pfe(by_horizon[i].pnls, confidence,
                                    threshold_for(threshold, by_horizon[i].horizon),
                                    netting)]
        bad == {i \in DOMAIN by_horizon : results[i].kind # "ok"}
    IN  IF ~validate_confidence(confidence) THEN [kind |-> ConfidenceErr, results |-> NoMap]
        ELSE IF bad # {}
        THEN [kind |-> results[CHOOSE i \in bad : \A j \in bad : i <= j].kind,
              results |-> NoMap]
        ELSE [kind |-> "ok",
              results |-> [h \in {by_horizon[i].horizon : i \in DOMAIN by_horizon} |->
                              results[CHOOSE i \in DOMAIN by_horizon :
                                          by_horizon[i].horizon = h]]]

\* analytic_pfe_profile.  The lognormal quantile of the spot and the values of
\* the forwards are not computed: value_q[h] and value_mean[h] stand for
\* _price_portfolio_at_spot at the quantile spot and at the expected spot of
\* horizon h, and extracted says whether _extract_underlying_params returned.
\* has_option says whether the portfolio holds a EuropeanOption: the option
\* _price_portfolio_at_spot builds is of the class of core.instruments, which
\* BlackScholesModel.price rejects.
analytic_pfe_profile(horizons, confidence, threshold, value_adjustment, extracted, has_option, value_q, value_mean) ==
    IF ~validate_confidence(confidence)
    THEN [kind |-> ConfidenceErr, pfe_profile |-> NoMap, expected_exposure |-> NoMap]
    ELSE IF horizons = <<>>
    THEN [kind |-> NoHorizonErr, pfe_profile |-> NoMap, expected_exposure |-> NoMap]
    ELSE IF \E i \in DOMAIN horizons : horizons[i] < 0
    THEN [kind |-> NegHorizonErr, pfe_profile |-> NoMap, expected_exposure |-> NoMap]
    ELSE IF ~extracted
    THEN [kind |-> UnderlyingErr, pfe_profile |-> NoMap, expected_exposure |-> NoMap]
    ELSE IF has_option
    THEN [kind |-> NotAnOptionErr, pfe_profile |-> NoMap, expected_exposure |-> NoMap]
    ELSE [kind |-> "ok",
          pfe_profile |-> [h \in Range(horizons) |->
                              Max(value_q[h] - value_adjustment - threshold, 0)],
          expected_exposure |-> [h \in Range(horizons) |->
                              Max(value_mean[h] - value_adjustment - threshold, 0)]]

----------------------------------------------------------------------------
(* VaR.  A var is counted in thousandths: a quantile or a mean in           *)
(* hundredths, times sqrt(horizon) in tenths.  The var of monte_carlo_var   *)
(* is the quantile of simulated returns in thousandths, so it is counted in *)
(* hundred-thousandths.                                                     *)

HorizonErr == "ValueError: horizon must be a positive integer"
NoReturnsErr == "ValueError: returns must contain at least one value"
ReturnTypeErr == "ValueError: return_type must be 'simple' or 'log'"
TailErr == "ValueError: tail must be 'left' or 'right'"
NumSimsErr == "ValueError: num_sims must be a positive integer"
DdofErr == "ValueError: ddof must be >= 0"
DdofSizeErr == "ValueError: ddof is too large for the returns length"
McMethodErr == "ValueError: method must be 'normal' or 'bootstrap'"
ShapeErr == "ValueError: asset_returns must be a 2D array of shape (n_obs, n_assets)"
WeightsErr == "ValueError: weights length must match number of assets"
MethodErr == "ValueError: method must be one of: historical, parametric, monte_carlo"

\* str.lower(), on the strings the model passes
lower(s) ==
    IF s = "Log" THEN "log"
    ELSE IF s = "Right" THEN "right"
    ELSE IF s = "Parametric" THEN "parametric"
    ELSE IF s = "Bootstrap" THEN "bootstrap"
    ELSE IF s = "Call" THEN "call"
    ELSE IF s = "Put" THEN "put"
    ELSE s

\* a scaling by the horizon itself, in tenths
sqrt_h_linear(horizon) == 10 * horizon

\* np.sqrt(horizon), in tenths, rounded down
sqrt_h(horizon) ==
    CHOOSE r \in 0..(10 * horizon) :
        r * r <= 100 * horizon /\ (r + 1) * (r + 1) > 100 * horizon

\* the largest r in lo..hi with r * r <= x
RECURSIVE bisect(_, _, _)
bisect(lo, hi, x) ==
    IF lo = hi THEN lo
    ELSE LET mid == (lo + hi + 1) \div 2
         IN  IF mid * mid <= x THEN bisect(mid, hi, x) ELSE bisect(lo, mid - 1, x)

\* the square root of a non-negative integer, rounded down
isqrt(x) == bisect(0, 2000, x)

RECURSIVE SumSq(_, _)
SumSq(seq, n) == IF n = 0 THEN 0 ELSE SumSq(seq, n - 1) + seq[n] * seq[n]

\* np.std(data, ddof=ddof), in hundredths, rounded down
std(data, ddof) ==
    LET n == Len(data)
        s == SumTo(data, n)
    IN  isqrt((10000 * (n * SumSq(data, n) - s * s)) \div (n * (n - ddof)))

\* _normal_ppf at the probabilities the model uses, in hundredths
normal_ppf(probability) ==
    IF probability < 50 THEN 0 - 164 ELSE IF probability = 50 THEN 0 ELSE 164

VarFailed(e) == [kind |-> e, type |-> "exception", var |-> 0, confidence |-> 0,
                 horizon |-> 0, quantile |-> 0, draws |-> 0]

\* historical_var
historical_var(returns, confidence, horizon, return_type, tail) ==
    IF confidence <= 0 \/ confidence >= 100 THEN VarFailed(ConfidenceErr)
    ELSE IF horizon <= 0 THEN VarFailed(HorizonErr)
    ELSE IF returns = <<>> THEN VarFailed(NoReturnsErr)
    ELSE IF lower(return_type) \notin {"simple", "log"} THEN VarFailed(ReturnTypeErr)
    ELSE IF lower(tail) \notin {"left", "right"} THEN VarFailed(TailErr)
    ELSE LET tail_kind == lower(tail)
             tail_prob == IF tail_kind = "right" THEN confidence ELSE 100 - confidence
             q == quantile(returns, tail_prob)
             scaled_quantile ==
                 IF lower(return_type) = "log"
                 THEN mean(returns) * horizon * 10 + (q - mean(returns)) * sqrt_h(horizon)
                 ELSE q * sqrt_h(horizon)
         IN  [kind |-> "ok", type |-> "HistoricalVaRResult",
              var |-> IF tail_kind = "right" THEN scaled_quantile ELSE 0 - scaled_quantile,
              confidence |-> confidence, horizon |-> horizon, quantile |-> q, draws |-> 0]

\* parametric_var
parametric_var(returns, confidence, horizon, return_type, tail) ==
    IF confidence <= 0 \/ confidence >= 100 THEN VarFailed(ConfidenceErr)
    ELSE IF horizon <= 0 THEN VarFailed(HorizonErr)
    ELSE IF returns = <<>> THEN VarFailed(NoReturnsErr)
    ELSE IF lower(return_type) \notin {"simple", "log"} THEN VarFailed(ReturnTypeErr)
    ELSE IF lower(tail) \notin {"left", "right"} THEN VarFailed(TailErr)
    ELSE LET tail_kind == lower(tail)
             tail_prob == IF tail_kind = "right" THEN confidence ELSE 100 - confidence
             mu == mean(returns)
             sigma == IF Len(returns) > 1 THEN std(returns, 1) ELSE 0
             z == normal_ppf(tail_prob)
             scaled_quantile ==
                 IF lower(return_type) = "log"
                 THEN mu * horizon * 10 + ((z * sigma) \div 100) * sqrt_h(horizon)
                 ELSE (mu + (z * sigma) \div 100) * sqrt_h(horizon)
         IN  [kind |-> "ok", type |-> "ParametricVaRResult",
              var |-> IF tail_kind = "right" THEN scaled_quantile ELSE 0 - scaled_quantile,
              confidence |-> confidence, horizon |-> horizon,
              quantile |-> mu + (z * sigma) \div 100, draws |-> 0]

\* np.prod(1.0 + samples) - 1.0 or np.sum(samples) of the bootstrap draws
\* first..first+horizon-1 of generator g, in whole units
RECURSIVE compound(_, _, _, _, _)
compound(returns, g, first, horizon, log) ==
    IF horizon = 0 THEN (IF log THEN 0 ELSE 1)
    ELSE LET r == returns[(rng_at(g, first + horizon - 1) % Len(returns)) + 1]
             rest == compound(returns, g, first, horizon - 1, log)
         IN  IF log THEN rest + r ELSE rest * (1 + r)

\* monte_carlo_var; the simulated returns are in thousandths
monte_carlo_var(returns, confidence, horizon, num_sims, seed, ddof, return_type, method, tail, entropy) ==
    IF confidence <= 0 \/ confidence >= 100 THEN VarFailed(ConfidenceErr)
    ELSE IF horizon <= 0 THEN VarFailed(HorizonErr)
    ELSE IF num_sims <= 0 THEN VarFailed(NumSimsErr)
    ELSE IF ddof < 0 THEN VarFailed(DdofErr)
    ELSE IF returns = <<>> THEN VarFailed(NoReturnsErr)
    ELSE IF Len(returns) - ddof <= 0 THEN VarFailed(DdofSizeErr)
    ELSE IF lower(return_type) \notin {"simple", "log"} THEN VarFailed(ReturnTypeErr)
    ELSE IF lower(method) \notin {"normal", "bootstrap"} THEN VarFailed(McMethodErr)
    ELSE IF lower(tail) \notin {"left", "right"} THEN VarFailed(TailErr)
    ELSE LET tail_kind == lower(tail)
             log == lower(return_type) = "log"
             mu == mean(returns)
             sigma == IF Len(returns) > 1 THEN std(returns, ddof) ELSE 0
             rng == default_rng(seed, entropy)
             root == sqrt_h(horizon)
             sims == [i \in 1..num_sims |->
                 IF lower(method) = "bootstrap"
                 THEN IF horizon = 1
                      THEN 1000 * returns[(rng_at(rng, i) % Len(returns)) + 1]
                      ELSE 1000 * (compound(returns, rng, (i - 1) * horizon + 1, horizon, log)
                                   - (IF log THEN 0 ELSE 1))
                 ELSE IF log
                 THEN mu * horizon * 10 + sigma * root * standard_normal(rng_at(rng, i))
                 ELSE (mu + sigma * standard_normal(rng_at(rng, i))) * root]
             tail_prob == IF tail_kind = "right" THEN confidence ELSE 100 - confidence
             q == quantile(sims, tail_prob)
         IN  [kind |-> "ok", type |-> "MonteCarloVaRResult",
              var |-> IF tail_kind = "right" THEN q ELSE 0 - q,
              confidence |-> confidence, horizon |-> horizon, quantile |-> q,
              draws |-> IF lower(method) = "bootstrap" /\ horizon > 1
                        THEN num_sims * horizon ELSE num_sims]

\* _as_list; an argument is [scalar, items]: a scalar holds one item
as_list(value) == value.items

\* data @ w
matmul(data, w) ==
    [i \in DOMAIN data.rows |->
        SumTo([j \in DOMAIN w |-> data.rows[i][j] * w[j]], Len(w))]

\* the (c, h) pairs in the order of the two loops of lines 424-425
pairs_of(confidences, horizons) ==
    [k \in 1..(Len(confidences) * Len(horizons)) |->
        <<confidences[((k - 1) \div Len(horizons)) + 1],
          horizons[((k - 1) % Len(horizons)) + 1]>>]

\* lines 426-459: the call made for one pair
var_for(method_key, returns, c, h, num_sims, seed, return_type, mc_method, tail, entropy) ==
    IF method_key = "historical" THEN historical_var(returns, c, h, return_type, tail)
    ELSE IF method_key = "parametric" THEN parametric_var(returns, c, h, return_type, tail)
    ELSE monte_carlo_var(returns, c, h, num_sims, seed, 1, return_type, mc_method, tail, entropy)

RECURSIVE SumDraws(_, _)
SumDraws(outs, n) == IF n = 0 THEN 0 ELSE SumDraws(outs, n - 1) + outs[n].draws

\* lines 424-468: the loop over the pairs and the value returned.  computed is
\* the number of pairs whose result was stored, draws the random numbers drawn.
run_pairs(returns, method_key, confidence, horizon, num_sims, seed, return_type, mc_method, tail, entropy) ==
    LET pairs == pairs_of(as_list(confidence), as_list(horizon))
        outs == [k \in DOMAIN pairs |->
                    var_for(method_key, returns, pairs[k][1], pairs[k][2], num_sims, seed,
                            return_type, mc_method, tail, (entropy + k - 1) % 2)]
        bad == {k \in DOMAIN pairs : outs[k].kind # "ok"}
        first == CHOOSE k \in bad : \A j \in bad : k <= j
        latest(p) == CHOOSE k \in DOMAIN pairs :
                         pairs[k] = p /\ \A j \in DOMAIN pairs : pairs[j] = p => j <= k
    IN  IF bad # {}
        THEN [kind |-> outs[first].kind, value |-> outs[first],
              computed |-> first - 1, draws |-> SumDraws(outs, first - 1)]
        ELSE [kind |-> "ok",
              value |-> IF confidence.scalar /\ horizon.scalar THEN outs[1]
                        ELSE [type |-> "dict",
                              items |-> [p \in Range(pairs) |-> outs[latest(p)]]],
              computed |-> Len(pairs), draws |-> SumDraws(outs, Len(pairs))]

PortfolioFailed(e) == [kind |-> e, value |-> VarFailed(e), computed |-> 0, draws |-> 0]

\* portfolio_var_from_returns without the validation of lines 413-418
portfolio_var_unvalidated(asset_returns, weights, method, confidence, horizon, num_sims, seed, return_type, mc_method, tail, entropy) ==
    IF asset_returns.ndim # 2 \/ size(asset_returns) = 0 THEN PortfolioFailed(ShapeErr)
    ELSE IF Len(weights) # Len(asset_returns.rows[1]) THEN PortfolioFailed(WeightsErr)
    ELSE IF lower(method) \notin {"historical", "parametric", "monte_carlo"}
    THEN PortfolioFailed(MethodErr)
    ELSE run_pairs(matmul(asset_returns, weights), lower(method), confidence, horizon,
                   num_sims, seed, return_type, mc_method, tail, entropy)

\* portfolio_var_from_returns; weights is a list of numbers
portfolio_var_from_returns(asset_returns, weights, method, confidence, horizon, num_sims, seed, return_type, mc_method, tail, entropy) ==
    IF asset_returns.ndim # 2 \/ size(asset_returns) = 0 THEN PortfolioFailed(ShapeErr)
    ELSE IF Len(weights) # Len(asset_returns.rows[1]) THEN PortfolioFailed(WeightsErr)
    ELSE IF \E i \in DOMAIN confidence.items :
                confidence.items[i] <= 0 \/ confidence.items[i] >= 100
    THEN PortfolioFailed(ConfidenceErr)
    ELSE IF \E i \in DOMAIN horizon.items : horizon.items[i] <= 0
    THEN PortfolioFailed(HorizonErr)
    ELSE IF lower(method) \notin {"historical", "parametric", "monte_carlo"}
    THEN PortfolioFailed(MethodErr)
    ELSE run_pairs(matmul(asset_returns, weights), lower(method), confidence, horizon,
                   num_sims, seed, return_type, mc_method, tail, entropy)

\* iter(value): a dict yields its keys, which are tuples
iterate(value) ==
    IF value.type = "dict"
    THEN {[type |-> "tuple", items |-> p] : p \in DOMAIN value.items}
    ELSE {}

----------------------------------------------------------------------------
(* The state machine of Part 3.  cfg holds the data of one of the functions *)
(* (the Monte Carlo configurations of Part 2 have no fn field); an action   *)
(* calls the function with the remaining arguments and records them and the *)
(* result in cur; DropResult makes room for the next call.                  *)

\* how many returns are simulated at most
MaxSims == 2

PnlValues == {0 - 2, 3}

Thresholds == {0 - 1, 0, 2}

\* the confidence levels, in percent
Levels == {0, 5, 50, 95, 100}

Rows(c) == [1..c -> PnlValues]

Arrays1 ==
    {[ndim |-> 1, rows |-> r] : r \in UNION {[1..n -> Rows(1)] : n \in 0..MaxScenarios}}

Arrays2 ==
    {[ndim |-> 2, rows |-> r] :
        r \in UNION {[1..n -> Rows(c)] : n \in 0..MaxScenarios, c \in 1..MaxPositions}}

\* a 0-D and a 3-D array
OddArrays == {[ndim |-> 0, rows |-> <<<<3>>>>], [ndim |-> 3, rows |-> <<<<3>>, <<0 - 2>>>>]}

ScenarioInputs ==
    [fn : {"scenario_pfe"}, pnls : Arrays1 \cup Arrays2 \cup OddArrays,
     threshold : Thresholds, netting : BOOLEAN]

ProfileArrays ==
    {[ndim |-> 1, rows |-> r] : r \in {<<>>, <<<<0 - 2>>>>, <<<<3>>>>, <<<<0 - 2>>, <<3>>>>}}
        \cup {[ndim |-> 3, rows |-> <<<<3>>, <<0 - 2>>>>]}

ByHorizon ==
    {<<>>} \cup {<<[horizon |-> h, pnls |-> a]>> : h \in {1, 5}, a \in ProfileArrays}
           \cup {<<[horizon |-> h, pnls |-> a], [horizon |-> 6 - h, pnls |-> b]>> :
                    h \in {1, 5}, a \in ProfileArrays, b \in ProfileArrays}

ProfileThresholds ==
    {[is_map |-> FALSE, value |-> 0, map |-> NoMap],
     [is_map |-> FALSE, value |-> 2, map |-> NoMap],
     [is_map |-> TRUE, value |-> 0, map |-> NoMap],
     [is_map |-> TRUE, value |-> 0, map |-> [h \in {1} |-> 2]]}

ProfileInputs ==
    [fn : {"scenario_pfe_profile"}, by_horizon : ByHorizon, threshold : ProfileThresholds,
     netting : BOOLEAN]

AnalyticInputs ==
    [fn : {"analytic_pfe_profile"}, horizons : {<<>>, <<0 - 1, 1>>, <<1>>, <<1, 2>>},
     threshold : {0, 1}, value_adjustment : {0, 1}, extracted : BOOLEAN,
     has_option : BOOLEAN]

\* the values of the portfolio at the spots of a horizon
PortfolioValues == {0 - 1, 2}

ReturnLists ==
    {<<>>, <<0 - 2>>, <<1>>, <<0 - 2, 1>>, <<1, 0 - 2>>, <<1, 3>>, <<3, 0 - 2, 1>>,
     <<1, 3, 3>>}

ReturnTypes == {"simple", "Log", "pct"}

Tails == {"left", "Right", "both"}

Horizons == {0, 1, 2}

VarInputs == [fn : {"var"}, returns : ReturnLists, return_type : ReturnTypes, tail : Tails]

AssetReturns ==
    {[ndim |-> 2, rows |-> <<<<1, 0 - 2>>, <<3, 1>>>>],
     [ndim |-> 2, rows |-> <<<<1, 3>>>>],
     [ndim |-> 2, rows |-> <<>>],
     [ndim |-> 1, rows |-> <<<<1>>, <<3>>>>]}

PortfolioInputs ==
    [fn : {"portfolio_var"}, asset_returns : AssetReturns, weights : {<<1, 1>>, <<1>>},
     return_type : {"simple", "pct"}, tail : {"left", "both"}]

Scalar(x) == [scalar |-> TRUE, items |-> <<x>>]

List(xs) == [scalar |-> FALSE, items |-> xs]

ConfidenceArgs == {Scalar(95), Scalar(0), List(<<>>), List(<<95>>), List(<<50, 95>>), List(<<95, 100>>)}

HorizonArgs == {Scalar(1), Scalar(0), List(<<1>>), List(<<1, 2>>), List(<<2, 0>>)}

MetricsInit ==
    /\ heap = <<>>
    /\ names = {}
    /\ last = Idle
    /\ cfg \in Configs \cup ScenarioInputs \cup ProfileInputs \cup AnalyticInputs
                  \cup VarInputs \cup PortfolioInputs
    /\ ref = NoCall
    /\ cur = NoCall

IsInput(fn) == "fn" \in DOMAIN cfg /\ cfg.fn = fn

McPfeProfile == cur.op = "idle" /\ "fn" \notin DOMAIN cfg /\ MonteCarloPfe

ScenarioPfe ==
    /\ cur.op = "idle"
    /\ IsInput("scenario_pfe")
    /\ \E confidence \in Levels :
        /\ cur' = [op |-> "scenario_pfe", confidence |-> confidence,
                   out |-> scenario_pfe(cfg.pnls, confidence, cfg.threshold, cfg.netting)]
        /\ UNCHANGED <<heap, names, last, cfg, ref>>

ScenarioPfeProfile ==
    /\ cur.op = "idle"
    /\ IsInput("scenario_pfe_profile")
    /\ \E confidence \in Levels :
        /\ cur' = [op |-> "scenario_pfe_profile", confidence |-> confidence,
                   out |-> scenario_pfe_profile(cfg.by_horizon, confidence, cfg.threshold,
                                                cfg.netting)]
        /\ UNCHANGED <<heap, names, last, cfg, ref>>

AnalyticPfeProfile ==
    /\ cur.op = "idle"
    /\ IsInput("analytic_pfe_profile")
    /\ \E confidence \in Levels, value_q \in [{1, 2} -> PortfolioValues],
          value_mean \in [{1, 2} -> PortfolioValues] :
        /\ cur' = [op |-> "analytic_pfe_profile", confidence |-> confidence,
                   out |-> analytic_pfe_profile(cfg.horizons, confidence, cfg.threshold,
                               cfg.value_adjustment, cfg.extracted, cfg.has_option, value_q,
                               value_mean)]
        /\ UNCHANGED <<heap, names, last, cfg, ref>>

HistoricalVar ==
    /\ cur.op = "idle"
    /\ IsInput("var")
    /\ \E confidence \in Levels, horizon \in Horizons :
        /\ cur' = [op |-> "historical_var", confidence |-> confidence, horizon |-> horizon,
                   out |-> historical_var(cfg.returns, confidence, horizon,
                                          cfg.return_type, cfg.tail)]
        /\ UNCHANGED <<heap, names, last, cfg, ref>>

ParametricVar ==
    /\ cur.op = "idle"
    /\ IsInput("var")
    /\ \E confidence \in Levels, horizon \in Horizons :
        /\ cur' = [op |-> "parametric_var", confidence |-> confidence, horizon |-> horizon,
                   out |-> parametric_var(cfg.returns, confidence, horizon,
                                          cfg.return_type, cfg.tail)]
        /\ UNCHANGED <<heap, names, last, cfg, ref>>

MonteCarloVar ==
    /\ cur.op = "idle"
    /\ IsInput("var")
    /\ \E confidence \in {0, 95}, horizon \in Horizons, num_sims \in 0..MaxSims,
          seed \in Seeds, ddof \in {0 - 1, 1}, method \in {"normal", "Bootstrap", "sobol"},
          entropy \in Entropy :
        /\ seed = <<>> \/ entropy = 0
        /\ cur' = [op |-> "monte_carlo_var", confidence |-> confidence, horizon |-> horizon,
                   num_sims |-> num_sims, seed |-> seed, ddof |-> ddof, method |-> method,
                   out |-> monte_carlo_var(cfg.returns, confidence, horizon, num_sims, seed,
                               ddof, cfg.return_type, method, cfg.tail, entropy)]
        /\ UNCHANGED <<heap, names, last, cfg, ref>>

PortfolioVar ==
    /\ cur.op = "idle"
    /\ IsInput("portfolio_var")
    /\ \E method \in {"historical", "Parametric", "monte_carlo", "evt"},
          confidence \in ConfidenceArgs, horizon \in HorizonArgs, num_sims \in {0, MaxSims},
          seed \in Seeds, mc_method \in {"normal", "sobol"}, entropy \in Entropy :
        /\ method = "monte_carlo" \/ (num_sims = MaxSims /\ seed = <<1>> /\ mc_method = "normal")
        /\ seed = <<>> \/ entropy = 0
        /\ cur' = [op |-> "portfolio_var", method |-> method, confidence |-> confidence,
                   horizon |-> horizon, num_sims |-> num_sims, seed |-> seed,
                   mc_method |-> mc_method,
                   out |-> portfolio_var_from_returns(cfg.asset_returns, cfg.weights, method,
                               confidence, horizon, num_sims, seed, cfg.return_type,
                               mc_method, cfg.tail, entropy)]
        /\ UNCHANGED <<heap, names, last, cfg, ref>>

MetricsNext ==
    \/ McPfeProfile \/ ScenarioPfe \/ ScenarioPfeProfile \/ AnalyticPfeProfile
    \/ HistoricalVar \/ ParametricVar \/ MonteCarloVar \/ PortfolioVar \/ DropResult

SpecMetrics == MetricsInit /\ [][MetricsNext]_vars

----------------------------------------------------------------------------
(* Part 3: the claims about the exposure and VaR functions *)

Gave(op) == cur.op = op /\ cur.out.kind = "ok"

\* C11: every PFE and every expected exposure that scenario_pfe,
\* scenario_pfe_profile, analytic_pfe_profile and monte_carlo_pfe_profile
\* return, at every horizon, is >= 0.
C11_NonNegative ==
    /\ Gave("scenario_pfe") => cur.out.pfe >= 0
    /\ Gave("scenario_pfe_profile") =>
           \A h \in DOMAIN cur.out.results : cur.out.results[h].pfe >= 0
    /\ Gave("analytic_pfe_profile") =>
           \A h \in DOMAIN cur.out.pfe_profile :
               cur.out.pfe_profile[h] >= 0 /\ cur.out.expected_exposure[h] >= 0
    /\ Gave("pfe") =>
           \A h \in DOMAIN cur.out.pfe_profile :
               cur.out.pfe_profile[h] >= 0 /\ cur.out.expected_exposure[h] >= 0

\* every scenario loses more than the threshold and the PFE is floored at zero
C11_Witness ==
    /\ Gave("scenario_pfe")
    /\ cfg.pnls = [ndim |-> 1, rows |-> <<<<0 - 2>>, <<0 - 2>>>>]
    /\ cfg.threshold = 2
    /\ cur.out.pfe = 0

\* the sum of a row, from its first value on
RECURSIVE Total(_)
Total(row) == IF row = <<>> THEN 0 ELSE Head(row) + Total(Tail(row))

\* the sum of the values of a row that are positive
RECURSIVE PositiveTotal(_)
PositiveTotal(row) ==
    IF row = <<>> THEN 0
    ELSE (IF Head(row) > 0 THEN Head(row) ELSE 0) + PositiveTotal(Tail(row))

\* the k-th smallest value of xs
OrderStatistic(xs, k) ==
    CHOOSE v \in Range(xs) :
        /\ Cardinality({i \in DOMAIN xs : xs[i] < v}) < k
        /\ Cardinality({i \in DOMAIN xs : xs[i] <= v}) >= k

\* the empirical quantile of xs at p percent, interpolated linearly between the
\* order statistics around position (n - 1) * p / 100, in hundredths
LinearQuantile(xs, p) ==
    LET below == ((Len(xs) - 1) * p) \div 100
        part  == ((Len(xs) - 1) * p) % 100
        x0 == OrderStatistic(xs, below + 1)
        x1 == IF part = 0 THEN x0 ELSE OrderStatistic(xs, below + 2)
    IN  100 * x0 + part * (x1 - x0)

\* the exposures of C12, one per scenario
NettingExposures ==
    [i \in DOMAIN cfg.pnls.rows |->
        LET netted == IF cfg.netting THEN Total(cfg.pnls.rows[i])
                      ELSE PositiveTotal(cfg.pnls.rows[i])
        IN  IF netted - cfg.threshold > 0 THEN netted - cfg.threshold ELSE 0]

\* C12: on a 2-D array scenario_pfe returns the linearly interpolated quantile,
\* at the confidence level, of max(sum of the position PnLs - threshold, 0) with
\* netting and of max(sum of their positive parts - threshold, 0) without.
C12_NettingModes ==
    (Gave("scenario_pfe") /\ cfg.pnls.ndim = 2) =>
        cur.out.pfe = LinearQuantile(NettingExposures, cur.confidence)

\* two scenarios of two positions with mixed signs, no netting, and a PFE
\* strictly between the two exposures
C12_Witness ==
    /\ Gave("scenario_pfe")
    /\ cfg.pnls = [ndim |-> 2, rows |-> <<<<0 - 2, 3>>, <<3, 3>>>>]
    /\ ~cfg.netting
    /\ cfg.threshold = 0
    /\ cur.confidence = 50
    /\ cur.out.pfe = 450

\* the confidence levels above c that the functions accept
HigherLevels(c) == {c2 \in Levels : c2 > c /\ c2 < 100}

LeftTail == lower(cfg.tail) = "left"

\* C13: with the data and the other arguments fixed, the PFE of scenario_pfe
\* and the VaR of left-tail historical_var at a confidence c2 > c1 are >= their
\* values at c1.
C13_MonotoneInConfidence ==
    /\ Gave("scenario_pfe") =>
           \A c2 \in HigherLevels(cur.confidence) :
               scenario_pfe(cfg.pnls, c2, cfg.threshold, cfg.netting).pfe >= cur.out.pfe
    /\ (Gave("historical_var") /\ LeftTail) =>
           \A c2 \in HigherLevels(cur.confidence) :
               historical_var(cfg.returns, c2, cur.horizon, cfg.return_type, cfg.tail).var
                   >= cur.out.var

\* a left-tail historical VaR at 50% that is strictly below the one at 95%
C13_Witness ==
    /\ Gave("historical_var") /\ LeftTail
    /\ cur.confidence = 50
    /\ cfg.returns = <<3, 0 - 2, 1>>
    /\ historical_var(cfg.returns, 95, cur.horizon, cfg.return_type, cfg.tail).var
           > cur.out.var

\* sqrt(h) in tenths, rounded down
Root10(h) == CHOOSE r \in 0..(10 * h) : r * r <= 100 * h /\ (r + 1) * (r + 1) > 100 * h

SimpleLeft == lower(cfg.return_type) = "simple" /\ LeftTail

\* C14: in simple-return mode left-tail historical_var returns
\* var = -q * sqrt(horizon) with q the linearly interpolated quantile of the
\* returns at 1 - confidence; at horizon 1 the VaR is the negated quantile and
\* VaR(h) = VaR(1) * sqrt(h) for the same sample.
C14_HistoricalScaling ==
    (Gave("historical_var") /\ SimpleLeft) =>
        LET q == LinearQuantile(cfg.returns, 100 - cur.confidence)
            at1 == historical_var(cfg.returns, cur.confidence, 1, cfg.return_type, cfg.tail)
        IN  /\ cur.out.var = (0 - q) * Root10(cur.horizon)
            /\ cur.horizon = 1 => cur.out.var = (0 - q) * 10
            /\ cur.out.var * 10 = at1.var * Root10(cur.horizon)

\* a two-period VaR of a sample with a loss in its tail
C14_Witness ==
    /\ Gave("historical_var") /\ SimpleLeft
    /\ cur.horizon = 2
    /\ cur.confidence = 95
    /\ cfg.returns = <<3, 0 - 2, 1>>
    /\ cur.out.var = 170 * 14

VarCalls == {"historical_var", "parametric_var", "monte_carlo_var"}

\* C15: for every non-empty return series, confidence in (0, 1) and horizon
\* >= 1, the var that historical_var, parametric_var and monte_carlo_var return
\* with tail = 'left' is never negative.
C15_LeftTailNonNegative ==
    (cur.op \in VarCalls /\ cur.out.kind = "ok" /\ LeftTail) => cur.out.var >= 0

\* the result class of a method of portfolio_var_from_returns
ResultType(method) ==
    IF lower(method) = "historical" THEN "HistoricalVaRResult"
    ELSE IF lower(method) = "parametric" THEN "ParametricVaRResult"
    ELSE "MonteCarloVaRResult"

\* the (confidence, horizon) pairs of the call in cur
PairsAsked ==
    {<<cur.confidence.items[i], cur.horizon.items[j]>> :
        i \in DOMAIN cur.confidence.items, j \in DOMAIN cur.horizon.items}

\* C16: portfolio_var_from_returns returns one unwrapped result when confidence
\* and horizon are both scalar; otherwise a collection with exactly one result
\* per (confidence, horizon) pair, and every element obtained by iterating the
\* collection is a result record of the requested method.
C16_OneResultPerPair ==
    Gave("portfolio_var") =>
        IF cur.confidence.scalar /\ cur.horizon.scalar
        THEN cur.out.value.type = ResultType(cur.method)
        ELSE /\ cur.out.value.type = "dict"
             /\ DOMAIN cur.out.value.items = PairsAsked
             /\ \A p \in PairsAsked :
                    /\ cur.out.value.items[p].type = ResultType(cur.method)
                    /\ cur.out.value.items[p].confidence = p[1]
                    /\ cur.out.value.items[p].horizon = p[2]
             /\ \A x \in iterate(cur.out.value) : x.type = ResultType(cur.method)

\* the errors of monte_carlo_pfe_profile about its configuration
PfeConfigErrs ==
    {ConfidenceErr, NumPathsErr, DtErr, NoHorizonErr, NegHorizonErr, ZeroHorizonErr,
     MaxAlignErr, AlignErr}

----------------------------------------------------------------------------
(* Part 4: MarketData, apply_scenario and PricingEngine *)
(*                                                                         *)
(* A mapping (spots, rates, vols, dividends, curves, the shocks of a       *)
(* Scenario) is a function from its keys to integers; a curve is known by  *)
(* a number.  An equity instrument is a record with the fields of all the  *)
(* equity classes, 0 for those its class has not, and symbol "" for a      *)
(* symbol that is None or empty.  A bond has the fields of FixedRateBond,  *)
(* and a Python sequence is a record holding its items.                    *)

UnsupportedErr == "TypeError: unsupported instrument type"

\* mapping.get(key, default)
dict_get(mapping, key, default) == IF key \in DOMAIN mapping THEN mapping[key] ELSE default

\* an _apply that keeps the keys of the base only
apply_base_keys(base_map, shocks) ==
    [key \in DOMAIN base_map |-> base_map[key] + dict_get(shocks, key, 0)]

\* _apply of apply_scenario
apply(base_map, shocks) ==
    [key \in DOMAIN base_map \cup DOMAIN shocks |->
        dict_get(base_map, key, 0) + dict_get(shocks, key, 0)]

\* curves = dict(base.curves); curves.update(scenario.curve_overrides)
update(curves, overrides) ==
    [key \in DOMAIN curves \cup DOMAIN overrides |->
        IF key \in DOMAIN overrides THEN overrides[key] ELSE curves[key]]

\* apply_scenario
apply_scenario(base, scenario) ==
    [spots |-> apply(base.spots, scenario.spot_shocks),
     rates |-> apply(base.rates, scenario.rate_shocks),
     vols |-> apply(base.vols, scenario.vol_shocks),
     dividends |-> apply(base.dividends, scenario.dividend_shocks),
     curves |-> update(base.curves, scenario.curve_overrides)]

\* a _dividend_for that never looks at the market
dividend_for_instrument(instrument, market_data) == instrument.dividend_yield

\* PricingEngine._dividend_for
dividend_for(instrument, market_data) ==
    IF instrument.symbol # "" /\ instrument.symbol \in DOMAIN market_data.dividends
    THEN market_data.dividends[instrument.symbol]
    ELSE instrument.dividend_yield

\* PricingEngine._vol_for
vol_for(instrument, market_data) ==
    IF instrument.symbol # "" /\ instrument.symbol \in DOMAIN market_data.vols
    THEN market_data.vols[instrument.symbol]
    ELSE instrument.vol

\* what price_instrument returns or raises, with the inputs it has taken
Priced(kind, price, taken, spot, rate, dividend, vol) ==
    [kind |-> kind, price |-> price, taken |-> taken, spot |-> spot, rate |-> rate,
     dividend |-> dividend, vol |-> vol]

NoDfErr == "ValueError: discount curve must expose df(t)"
MaturityErr == "ValueError: maturity must be >= 0"
FaceErr == "ValueError: face must be > 0"
CouponErr == "ValueError: coupon_rate must be >= 0"
PaymentsErr == "ValueError: payments_per_year must be > 0"
PeriodsErr == "ValueError: maturity must align with payments_per_year"
TimeErr == "ValueError: time must be >= 0"
NotCashflowsErr == "TypeError: instrument must be a sequence of Cashflow"
OptionTypeErr == "ValueError: option_type must be 'call' or 'put'"
StrikeErr == "ValueError: strike must be > 0"

\* the EuropeanOption class black_scholes.py defines; "EuropeanOption" is the
\* class of core.instruments, which risk_engine.models.pricing exports
BlackScholesOption == "black_scholes.EuropeanOption"

\* a _rate_for that prices at a zero rate when the market has no 'risk_free'
rate_for_default(market_data) ==
    [kind |-> "ok", rate |-> dict_get(market_data.rates, "risk_free", 0)]

\* PricingEngine._rate_for
rate_for(market_data) ==
    IF "risk_free" \in DOMAIN market_data.rates
    THEN [kind |-> "ok", rate |-> market_data.rates["risk_free"]]
    ELSE [kind |-> NoRateErr, rate |-> 0]

\* PricingEngine._discounting_model and _cashflow_model, which differ in the
\* class they build only.  The curve numbered k > 0 has a df(t) that discounts
\* at the flat rate k; the curve 0 is an object without a df attribute.
discounting_model(market_data) ==
    IF "discount" \in DOMAIN market_data.curves
    THEN IF market_data.curves["discount"] = 0
         THEN [kind |-> NoDfErr, rate |-> 0, by |-> "curve"]
         ELSE [kind |-> "ok", rate |-> market_data.curves["discount"], by |-> "curve"]
    ELSE [kind |-> rate_for(market_data).kind, rate |-> rate_for(market_data).rate,
          by |-> "rate"]

\* amount * exp(-rate * maturity), to first order
discounted(amount, rate, maturity) == amount - (amount * rate * maturity) \div Year

\* the coupons of the first n periods of a bond, discounted
RECURSIVE coupons(_, _, _)
coupons(bond, rate, n) ==
    IF n = 0 THEN 0
    ELSE coupons(bond, rate, n - 1)
         + discounted((bond.face * bond.coupon_rate) \div bond.payments_per_year, rate,
                      (n * Year) \div bond.payments_per_year)

\* DiscountingModel._price_fixed_rate_bond
price_fixed_rate_bond(bond, rate) ==
    IF bond.face <= 0 THEN [kind |-> FaceErr, price |-> 0]
    ELSE IF bond.coupon_rate < 0 THEN [kind |-> CouponErr, price |-> 0]
    ELSE IF bond.maturity < 0 THEN [kind |-> MaturityErr, price |-> 0]
    ELSE IF bond.payments_per_year <= 0 THEN [kind |-> PaymentsErr, price |-> 0]
    ELSE IF (bond.maturity * bond.payments_per_year) % Year # 0
    THEN [kind |-> PeriodsErr, price |-> 0]
    ELSE [kind |-> "ok",
          price |-> coupons(bond, rate, (bond.maturity * bond.payments_per_year) \div Year)
                    + discounted(bond.face, rate, bond.maturity)]

\* DiscountingModel.price of a model that discounts at a flat rate
discounting_price(instrument, rate) ==
    IF instrument.type = "EquitySpot" THEN [kind |-> "ok", price |-> instrument.spot]
    ELSE IF instrument.type = "EquityForward"
    THEN IF instrument.maturity < 0 THEN [kind |-> MaturityErr, price |-> 0]
         ELSE [kind |-> "ok",
               price |-> discounted(instrument.spot, instrument.dividend_yield,
                                    instrument.maturity)
                         - discounted(instrument.strike, rate, instrument.maturity)]
    ELSE IF instrument.type = "FixedRateBond" THEN price_fixed_rate_bond(instrument, rate)
    ELSE IF instrument.type = "ZeroCouponBond"
    THEN IF instrument.maturity < 0 THEN [kind |-> MaturityErr, price |-> 0]
         ELSE [kind |-> "ok", price |-> discounted(instrument.face, rate, instrument.maturity)]
    ELSE [kind |-> UnsupportedErr, price |-> 0]

\* present_value of the first n cashflows
RECURSIVE present_value(_, _, _)
present_value(cashflows, rate, n) ==
    IF n = 0 THEN 0
    ELSE present_value(cashflows, rate, n - 1)
         + discounted(cashflows[n].amount, rate, cashflows[n].time)

\* isinstance(instrument, Sequence) and every item is a Cashflow
AllCashflows(instrument) ==
    /\ instrument.type = "Sequence"
    /\ \A i \in DOMAIN instrument.items : instrument.items[i].type = "Cashflow"

\* CashflowPVModel.price
cashflow_price(instrument, rate) ==
    IF instrument.type # "Sequence" THEN [kind |-> NotCashflowsErr, price |-> 0]
    ELSE IF instrument.items = <<>> THEN [kind |-> "ok", price |-> 0]
    ELSE IF ~AllCashflows(instrument) THEN [kind |-> NotCashflowsErr, price |-> 0]
    ELSE IF \E i \in DOMAIN instrument.items :
                /\ instrument.items[i].time < 0
                /\ \A j \in 1..(i - 1) : instrument.items[j].time >= 0
    THEN [kind |-> TimeErr, price |-> 0]
    ELSE [kind |-> "ok",
          price |-> present_value(instrument.items, rate, Len(instrument.items))]

\* _validate_option and the value of BlackScholesModel.price.  Only the value at
\* maturity 0 or volatility 0 is computed (the intrinsic value of the forward,
\* discounted); the options priced have one of the two.
black_scholes_value(instrument) ==
    IF instrument.maturity < 0 THEN [kind |-> MaturityErr, price |-> 0]
    ELSE IF instrument.vol < 0 THEN [kind |-> VolErr, price |-> 0]
    ELSE IF instrument.spot <= 0 THEN [kind |-> SpotErr, price |-> 0]
    ELSE IF instrument.strike <= 0 THEN [kind |-> StrikeErr, price |-> 0]
    ELSE IF lower(instrument.option_type) \notin {"call", "put"}
    THEN [kind |-> OptionTypeErr, price |-> 0]
    ELSE [kind |-> "ok",
          price |-> IF lower(instrument.option_type) = "call"
                    THEN Max(instrument.spot
                             - discounted(instrument.strike, instrument.rate,
                                          instrument.maturity), 0)
                    ELSE Max(discounted(instrument.strike, instrument.rate,
                                        instrument.maturity)
                             - instrument.spot, 0)]

\* BlackScholesModel.price: the isinstance test against the EuropeanOption of
\* black_scholes.py, then _validate_option and the value
black_scholes_price(instrument) ==
    IF instrument.type # BlackScholesOption THEN [kind |-> NotAnOptionErr, price |-> 0]
    ELSE black_scholes_value(instrument)

\* PricingEngine.price_instrument with every lookup and exception.  As in
\* Part 2, exp(-x) is taken to first order.  The forward and the option handed
\* to the pricing model are built from the class names engine.py imports:
\* EquityForward and EuropeanOption of core.instruments.
engine_price_instrument(instrument, market_data) ==
    LET spot == IF instrument.symbol # "" THEN spot_for(instrument, market_data)
                ELSE instrument.spot
        found == rate_for(market_data)
        model == discounting_model(market_data)
        dividend == dividend_for(instrument, market_data)
        vol == vol_for(instrument, market_data)
        forward == discounting_price(
                       [instrument EXCEPT !.spot = spot, !.rate = found.rate,
                                          !.dividend_yield = dividend],
                       found.rate)
        option == black_scholes_price(
                      [type |-> "EuropeanOption", spot |-> spot,
                       strike |-> instrument.strike, maturity |-> instrument.maturity,
                       rate |-> found.rate, vol |-> vol,
                       option_type |-> instrument.option_type])
    IN  IF instrument.type = "EquitySpot"
        THEN Priced("ok", spot, {"spot"}, spot, 0, 0, 0)
        ELSE IF instrument.type = "EquityForward"
        THEN IF found.kind # "ok" THEN Priced(found.kind, 0, {"spot"}, spot, 0, 0, 0)
             ELSE Priced(forward.kind, forward.price, {"spot", "rate", "dividend"}, spot,
                         found.rate, dividend, 0)
        ELSE IF instrument.type \in {"FixedRateBond", "ZeroCouponBond"}
        THEN IF model.kind # "ok" THEN Priced(model.kind, 0, {}, 0, 0, 0, 0)
             ELSE Priced(discounting_price(instrument, model.rate).kind,
                         discounting_price(instrument, model.rate).price, {model.by}, 0,
                         model.rate, 0, 0)
        ELSE IF instrument.type = "EuropeanOption"
        THEN IF found.kind # "ok" THEN Priced(found.kind, 0, {"spot"}, spot, 0, 0, 0)
             ELSE Priced(option.kind, option.price, {"spot", "rate", "vol"}, spot, found.rate,
                         0, vol)
        ELSE IF instrument.type = "Sequence" /\ instrument.items # <<>>
                /\ AllCashflows(instrument)
        THEN IF model.kind # "ok" THEN Priced(model.kind, 0, {}, 0, 0, 0, 0)
             ELSE Priced(cashflow_price(instrument, model.rate).kind,
                         cashflow_price(instrument, model.rate).price, {model.by}, 0,
                         model.rate, 0, 0)
        ELSE Priced(UnsupportedErr, 0, {}, 0, 0, 0, 0)

\* the values of the first n positions: value = price * position.quantity
RECURSIVE position_values(_, _, _)
position_values(portfolio, market_data, n) ==
    IF n = 0 THEN 0
    ELSE position_values(portfolio, market_data, n - 1)
         + engine_price_instrument(portfolio[n].instrument, market_data).price
           * portfolio[n].quantity

\* PricingEngine.price_portfolio: the total, or the exception of the first
\* position whose pricing raises
engine_price_portfolio(portfolio, market_data) ==
    LET bad == {i \in DOMAIN portfolio :
                   engine_price_instrument(portfolio[i].instrument, market_data).kind # "ok"}
    IN  IF bad # {}
        THEN [kind |-> engine_price_instrument(
                           portfolio[CHOOSE i \in bad : \A j \in bad : i <= j].instrument,
                           market_data).kind,
              total |-> 0]
        ELSE [kind |-> "ok", total |-> position_values(portfolio, market_data, Len(portfolio))]

\* the market the n-th scenario is applied to when each scenario is applied to
\* the result of the one before
RECURSIVE chained(_, _, _)
chained(market_data, scenarios, n) ==
    IF n = 0 THEN market_data
    ELSE apply_scenario(chained(market_data, scenarios, n - 1), scenarios[n])

RevalueFailed(e) == [kind |-> e, base |-> 0, scenario_values |-> <<>>, pnls |-> <<>>]

\* a revalue_scenarios that shocks the market of the previous scenario
revalue_scenarios_chained(portfolio, market_data, scenarios) ==
    LET base_value == engine_price_portfolio(portfolio, market_data)
        values == [i \in DOMAIN scenarios |->
                      engine_price_portfolio(portfolio, chained(market_data, scenarios, i))]
        bad == {i \in DOMAIN scenarios : values[i].kind # "ok"}
    IN  IF base_value.kind # "ok" THEN RevalueFailed(base_value.kind)
        ELSE IF bad # {}
        THEN RevalueFailed(values[CHOOSE i \in bad : \A j \in bad : i <= j].kind)
        ELSE [kind |-> "ok", base |-> base_value.total,
              scenario_values |-> [i \in DOMAIN scenarios |-> values[i].total],
              pnls |-> [i \in DOMAIN scenarios |-> values[i].total - base_value.total]]

\* PricingEngine.revalue_scenarios; base and scenario_values hold the totals
revalue_scenarios(portfolio, market_data, scenarios) ==
    LET base_value == engine_price_portfolio(portfolio, market_data)
        values == [i \in DOMAIN scenarios |->
                      engine_price_portfolio(portfolio,
                                             apply_scenario(market_data, scenarios[i]))]
        bad == {i \in DOMAIN scenarios : values[i].kind # "ok"}
    IN  IF base_value.kind # "ok" THEN RevalueFailed(base_value.kind)
        ELSE IF bad # {}
        THEN RevalueFailed(values[CHOOSE i \in bad : \A j \in bad : i <= j].kind)
        ELSE [kind |-> "ok", base |-> base_value.total,
              scenario_values |-> [i \in DOMAIN scenarios |-> values[i].total],
              pnls |-> [i \in DOMAIN scenarios |-> values[i].total - base_value.total]]

----------------------------------------------------------------------------
(* The state machine of Part 4.  cfg holds a market and a portfolio; an     *)
(* action calls apply_scenario or the engine on them and records the        *)
(* arguments and the result in cur.                                         *)

NoShocks == <<>>

\* the mappings from a subset of keys to values
Maps(keys, values) == UNION {[s -> values] : s \in SUBSET keys}

MarketDatas ==
    [spots : Maps({"ABC", "XYZ"}, {3, 5}),
     rates : Maps({"risk_free"}, {1}),
     vols : Maps({"ABC"}, {2}),
     dividends : Maps({"XYZ"}, {1}),
     curves : Maps({"discount"}, {0, 1})]

Shocked(spot_shocks, rate_shocks, vol_shocks, dividend_shocks, curve_overrides) ==
    [spot_shocks |-> spot_shocks, rate_shocks |-> rate_shocks, vol_shocks |-> vol_shocks,
     dividend_shocks |-> dividend_shocks, curve_overrides |-> curve_overrides]

Scenarios ==
    {Shocked(NoShocks, NoShocks, NoShocks, NoShocks, NoShocks),
     Shocked([k \in {"ABC"} |-> 2], NoShocks, NoShocks, NoShocks, NoShocks),
     Shocked([k \in {"XYZ"} |-> 0 - 1], [k \in {"risk_free"} |-> 1], NoShocks, NoShocks,
             NoShocks),
     Shocked([k \in {"NEW"} |-> 2], NoShocks, [k \in {"ABC"} |-> 1], [k \in {"XYZ"} |-> 1],
             NoShocks),
     Shocked(NoShocks, [k \in {"libor"} |-> 1], NoShocks, NoShocks,
             [k \in {"discount"} |-> 2])}

ScenarioLists == UNION {[1..n -> Scenarios] : n \in 0..MaxScenarios}

Instrument(type, symbol, spot, strike, maturity, dividend_yield, vol, rate, option_type) ==
    [type |-> type, symbol |-> symbol, spot |-> spot, strike |-> strike,
     maturity |-> maturity, dividend_yield |-> dividend_yield, vol |-> vol, rate |-> rate,
     option_type |-> option_type]

Bond(type, face, coupon_rate, maturity, payments_per_year) ==
    [type |-> type, face |-> face, coupon_rate |-> coupon_rate, maturity |-> maturity,
     payments_per_year |-> payments_per_year]

Cashflow(time, amount) == [type |-> "Cashflow", time |-> time, amount |-> amount]

Items(items) == [type |-> "Sequence", items |-> items]

EngineInstruments ==
    {Instrument("EquitySpot", s, 4, 0, 0, 0, 0, 0, "") : s \in {"", "ABC", "XYZ"}}
        \cup {Instrument("EquityForward", s, 4, 2, Year, 2, 0, 2, "") : s \in {"", "ABC", "XYZ"}}
        \cup {Instrument("EuropeanOption", s, 4, 2, Year, 0, 3, 2, "call") : s \in {"", "ABC"}}
        \cup {Instrument("VarianceSwap", "ABC", 4, 2, Year, 0, 3, 0, "")}
        \cup {Instrument(BlackScholesOption, "", 4, 2, 0, 0, 3, 2, "call")}
        \cup {Bond("FixedRateBond", 10, 1, Year, 2), Bond("FixedRateBond", 10, 1, Year + 1, 2),
              Bond("ZeroCouponBond", 10, 0, Year, 0)}
        \cup {Items(<<>>), Items(<<Cashflow(Year, 5), Cashflow(2 * Year, 5)>>),
              Items(<<Cashflow(Year, 5), [type |-> "str"]>>)}

Holding(instrument, quantity) == [instrument |-> instrument, quantity |-> quantity]

EnginePortfolios ==
    {<<>>,
     <<Holding(Instrument("EquitySpot", "ABC", 4, 0, 0, 0, 0, 0, ""), 2),
       Holding(Instrument("EquityForward", "XYZ", 4, 2, Year, 2, 0, 2, ""), 1)>>,
     <<Holding(Instrument("EquitySpot", "", 4, 0, 0, 0, 0, 0, ""), 1),
       Holding(Instrument("EquityForward", "ABC", 4, 2, Year, 2, 0, 2, ""), 0 - 3)>>,
     <<Holding(Instrument("EquitySpot", "XYZ", 4, 0, 0, 0, 0, 0, ""), 1),
       Holding(Instrument("EuropeanOption", "ABC", 4, 2, Year, 0, 3, 2, "call"), 1)>>,
     <<Holding(Bond("ZeroCouponBond", 10, 0, Year, 0), 2),
       Holding(Instrument("EquityForward", "ABC", 4, 2, Year, 2, 0, 2, ""), 1)>>}

EngineInit ==
    /\ heap = <<>>
    /\ names = {}
    /\ last = Idle
    /\ cfg \in [market : MarketDatas, portfolio : EnginePortfolios]
    /\ ref = NoCall
    /\ cur = NoCall

ApplyScenario ==
    /\ cur.op = "idle"
    /\ \E scenario \in Scenarios :
          cur' = [op |-> "apply_scenario", base |-> cfg.market, scenario |-> scenario,
                  out |-> apply_scenario(cfg.market, scenario)]
    /\ UNCHANGED <<heap, names, last, cfg, ref>>

PriceInstrument ==
    /\ cur.op = "idle"
    /\ \E instrument \in EngineInstruments :
          cur' = [op |-> "price_instrument", instrument |-> instrument,
                  out |-> engine_price_instrument(instrument, cfg.market)]
    /\ UNCHANGED <<heap, names, last, cfg, ref>>

PricePortfolio ==
    /\ cur.op = "idle"
    /\ cur' = [op |-> "price_portfolio",
               out |-> engine_price_portfolio(cfg.portfolio, cfg.market)]
    /\ UNCHANGED <<heap, names, last, cfg, ref>>

\* BlackScholesModel().price(option), called directly
BlackScholesPrice ==
    /\ cur.op = "idle"
    /\ \E type \in {"EuropeanOption", BlackScholesOption}, maturity \in {0, Year},
          option_type \in {"call", "Put", "straddle"} :
          cur' = [op |-> "black_scholes_price",
                  instrument |-> Instrument(type, "", 4, 2, maturity, 0, 0, 2, option_type),
                  out |-> black_scholes_price(
                              Instrument(type, "", 4, 2, maturity, 0, 0, 2, option_type))]
    /\ UNCHANGED <<heap, names, last, cfg, ref>>

RevalueScenarios ==
    /\ cur.op = "idle"
    /\ \E scenarios \in ScenarioLists :
          cur' = [op |-> "revalue_scenarios", scenarios |-> scenarios,
                  out |-> revalue_scenarios(cfg.portfolio, cfg.market, scenarios)]
    /\ UNCHANGED <<heap, names, last, cfg, ref>>

EngineNext ==
    \/ ApplyScenario \/ PriceInstrument \/ PricePortfolio \/ RevalueScenarios
    \/ BlackScholesPrice \/ DropResult

SpecEngine == EngineInit /\ [][EngineNext]_vars

----------------------------------------------------------------------------
(* Part 4: the claims about apply_scenario and PricingEngine *)

\* the sum over the positions of quantity x instrument price, under a market
ValueUnder(market_data) ==
    Total([i \in DOMAIN cfg.portfolio |->
              cfg.portfolio[i].quantity
              * engine_price_instrument(cfg.portfolio[i].instrument, market_data).price])

\* C18: revalue_scenarios returns one portfolio value and one PnL per scenario,
\* in scenario order; the value is the portfolio total under apply_scenario of
\* the base market and that scenario alone, and the PnL is that total minus the
\* total under the base market.
C18_RevalueAgainstBase ==
    Gave("revalue_scenarios") =>
        /\ DOMAIN cur.out.scenario_values = DOMAIN cur.scenarios
        /\ DOMAIN cur.out.pnls = DOMAIN cur.scenarios
        /\ cur.out.base = ValueUnder(cfg.market)
        /\ \A i \in DOMAIN cur.scenarios :
               /\ cur.out.scenario_values[i]
                      = ValueUnder(apply_scenario(cfg.market, cur.scenarios[i]))
               /\ cur.out.pnls[i] = cur.out.scenario_values[i] - ValueUnder(cfg.market)

\* the same spot shock twice gives the same non-zero PnL twice
C18_Witness ==
    /\ Gave("revalue_scenarios")
    /\ Len(cur.scenarios) = 2
    /\ cur.scenarios[1] = cur.scenarios[2]
    /\ cur.scenarios[1].spot_shocks = [k \in {"ABC"} |-> 2]
    /\ cur.out.pnls[1] # 0
    /\ cur.out.pnls[2] = cur.out.pnls[1]

\* result holds, for the union of the keys, the base value (0 if absent) plus
\* the shock (0 if not shocked)
BasePlusShock(result, base_map, shocks) ==
    /\ DOMAIN result = DOMAIN base_map \cup DOMAIN shocks
    /\ \A key \in DOMAIN result :
           /\ result[key] = (IF key \in DOMAIN base_map THEN base_map[key] ELSE 0)
                            + (IF key \in DOMAIN shocks THEN shocks[key] ELSE 0)
           /\ key \notin DOMAIN shocks => result[key] = base_map[key]

\* C19: each of spots, rates, vols and dividends of apply_scenario(base,
\* scenario) has the union of the base keys and the shock keys, each value is
\* the base value (0 if absent) plus the shock (0 if not shocked), unshocked
\* factors keep their value, and the base is what it was before the call.
C19_AdditiveShocks ==
    cur.op = "apply_scenario" =>
        /\ BasePlusShock(cur.out.spots, cur.base.spots, cur.scenario.spot_shocks)
        /\ BasePlusShock(cur.out.rates, cur.base.rates, cur.scenario.rate_shocks)
        /\ BasePlusShock(cur.out.vols, cur.base.vols, cur.scenario.vol_shocks)
        /\ BasePlusShock(cur.out.dividends, cur.base.dividends,
                         cur.scenario.dividend_shocks)
        /\ cfg.market = cur.base

\* a shock on a spot the base has not introduces the factor, next to an
\* unshocked spot and a shocked vol
C19_Witness ==
    /\ cur.op = "apply_scenario"
    /\ DOMAIN cur.base.spots = {"ABC"}
    /\ DOMAIN cur.out.spots = {"ABC", "NEW"}
    /\ cur.out.spots["NEW"] = 2
    /\ cur.out.spots["ABC"] = cur.base.spots["ABC"]
    /\ cur.out.vols = [k \in {"ABC"} |-> 3]

\* the market entry keyed by the symbol of the instrument in cur, or else the
\* value embedded in the instrument
Override(entries, embedded) ==
    IF cur.instrument.symbol # "" /\ cur.instrument.symbol \in DOMAIN entries
    THEN entries[cur.instrument.symbol]
    ELSE embedded

\* C20: the spot, the volatility and the dividend yield price_instrument uses
\* are the market entries keyed by the instrument's symbol when the instrument
\* has a symbol and the market has the entry, and the instrument's own values
\* otherwise.
C20_SymbolOverrides ==
    cur.op = "price_instrument" =>
        /\ "spot" \in cur.out.taken =>
               cur.out.spot = Override(cfg.market.spots, cur.instrument.spot)
        /\ "vol" \in cur.out.taken =>
               cur.out.vol = Override(cfg.market.vols, cur.instrument.vol)
        /\ "dividend" \in cur.out.taken =>
               cur.out.dividend
                   = Override(cfg.market.dividends, cur.instrument.dividend_yield)
        /\ (cur.instrument.type = "EquitySpot") =>
               (cur.out.kind = "ok" /\ cur.out.taken = {"spot"}
                /\ cur.out.price = cur.out.spot)
        /\ (cur.instrument.type = "EquityForward" /\ cur.out.kind = "ok") =>
               cur.out.taken = {"spot", "rate", "dividend"}
        /\ (cur.instrument.type = "EuropeanOption"
            /\ "risk_free" \in DOMAIN cfg.market.rates) =>
               cur.out.taken = {"spot", "rate", "vol"}

\* a forward priced with the market's spot and dividend yield of its symbol,
\* both different from its own
C20_Witness ==
    /\ Gave("price_instrument")
    /\ cur.instrument.type = "EquityForward"
    /\ cur.instrument.symbol = "XYZ"
    /\ "XYZ" \in DOMAIN cfg.market.spots
    /\ cur.out.spot = cfg.market.spots["XYZ"]
    /\ cur.out.spot # cur.instrument.spot
    /\ cur.out.dividend = 1
    /\ cur.instrument.dividend_yield = 2


\* the instrument types price_instrument has a branch for
HasBranch(instrument) ==
    \/ instrument.type \in {"EquitySpot", "EquityForward", "FixedRateBond", "ZeroCouponBond",
                            "EuropeanOption"}
    \/ /\ instrument.type = "Sequence"
       /\ Len(instrument.items) > 0
       /\ \A i \in 1..Len(instrument.items) : instrument.items[i].type = "Cashflow"

\* the instruments whose pricing needs the risk-free rate of the market
NeedsRate(instrument, market_data) ==
    \/ instrument.type \in {"EquityForward", "EuropeanOption"}
    \/ /\ HasBranch(instrument)
       /\ instrument.type \in {"FixedRateBond", "ZeroCouponBond", "Sequence"}
       /\ "discount" \notin DOMAIN market_data.curves

\* an instrument the engine cannot price under the market
Unpriceable(instrument, market_data) ==
    \/ ~HasBranch(instrument)
    \/ NeedsRate(instrument, market_data) /\ "risk_free" \notin DOMAIN market_data.rates

CompleteMarket(market_data) ==
    /\ "risk_free" \in DOMAIN market_data.rates
    /\ "discount" \in DOMAIN market_data.curves => market_data.curves["discount"] # 0

\* C28: for an instrument of a class price_instrument has a branch for, and a
\* market with the rate and the curve the branch reads, the pricing model the
\* branch calls accepts the object it is handed: no TypeError is raised, and a
\* price is returned unless the instrument's own data are invalid.
C28_CollaboratorsAccept ==
    (cur.op = "price_instrument" /\ HasBranch(cur.instrument)
     /\ CompleteMarket(cfg.market)) =>
        /\ cur.out.kind \notin {NotAnOptionErr, UnsupportedErr, NotCashflowsErr}
        /\ cur.out.kind \in {"ok", PeriodsErr}
----------------------------------------------------------------------------
(* Part 5: the analytic PFE profile of a portfolio, and _roll_portfolio     *)
(*                                                                         *)
(* _extract_underlying_params walks the positions and keeps the first spot, *)
(* volatility, rate, dividend, symbol and direction; each is None until a   *)
(* position sets it.  None is the empty tuple and a value v the tuple <<v>>.*)
(* Spots, volatilities and rates are counted in hundred-thousandths, so     *)
(* that np.isclose is given numbers it tells apart.                         *)

ForwardVolErr == "ValueError: market_data.vols must include forward symbol vol"
SupportErr == "ValueError: analytic_pfe supports EquityForward and EuropeanOption only"
SymbolErr == "ValueError: all instruments must share the same underlying symbol"
MonotonicErr == "ValueError: portfolio value is not monotonic in spot"
SharedSpotErr == "ValueError: all instruments must share the same spot"
SharedVolErr == "ValueError: all instruments must share the same vol"
SharedRateErr == "ValueError: all instruments must share the same rate"
NoInstrumentErr == "ValueError: portfolio must contain at least one supported instrument"

None == <<>>

Some(v) == <<v>>

\* value if value is not None else default
or_else(value, default) == IF value # None THEN value[1] ELSE default

\* default_dividend: the only dividend of the market, or None
default_dividend(market_data) ==
    IF Cardinality(DOMAIN market_data.dividends) = 1
    THEN Some(market_data.dividends[CHOOSE k \in DOMAIN market_data.dividends : TRUE])
    ELSE None

InstParams(kind, symbol, spot, rate, div, vol, direction) ==
    [kind |-> kind, symbol |-> symbol, spot |-> spot, rate |-> rate, div |-> div,
     vol |-> vol, direction |-> direction]

\* the first half of the loop body of _extract_underlying_params: inst_symbol,
\* inst_spot, inst_rate, inst_div, inst_vol and inst_direction of a position,
\* given the rate the loop holds (None or a value), or the error raised
position_params(instrument, market_data, rate) ==
    IF instrument.type = "EquityForward"
    THEN IF instrument.symbol = "" \/ instrument.symbol \notin DOMAIN market_data.vols
         THEN InstParams(ForwardVolErr, None, 0, 0, 0, 0, 0)
         ELSE InstParams("ok", Some(instrument.symbol),
                         dict_get(market_data.spots, instrument.symbol, instrument.spot),
                         or_else(rate, instrument.rate),
                         dict_get(market_data.dividends, instrument.symbol,
                                  instrument.dividend_yield),
                         market_data.vols[instrument.symbol], 1)
    ELSE IF instrument.type = "EuropeanOption"
    THEN IF lower(instrument.option_type) \notin {"call", "put"}
         THEN InstParams(OptionTypeErr, None, 0, 0, 0, 0, 0)
         ELSE InstParams("ok",
                         IF instrument.symbol = "" THEN None ELSE Some(instrument.symbol),
                         instrument.spot, instrument.rate,
                         or_else(default_dividend(market_data), 0), instrument.vol,
                         IF lower(instrument.option_type) = "call" THEN 1 ELSE 0 - 1)
    ELSE InstParams(SupportErr, None, 0, 0, 0, 0, 0)

\* a signed direction that forgets the sign of the quantity
signed_direction_long(inst_direction, qty) == inst_direction

\* signed_direction = inst_direction if qty >= 0.0 else -inst_direction
signed_direction(inst_direction, qty) ==
    IF qty >= 0 THEN inst_direction ELSE 0 - inst_direction

ExtractFailed(e) ==
    [kind |-> e, spot |-> None, vol |-> None, rate |-> None, dividend |-> None,
     underlying_symbol |-> None, direction |-> None]

\* the loop of _extract_underlying_params from position i on; held is what the
\* loop holds when it reaches the position
RECURSIVE extract_loop(_, _, _, _)
extract_loop(portfolio, market_data, i, held) ==
    IF i > Len(portfolio) THEN held
    ELSE LET inst == position_params(portfolio[i].instrument, market_data, held.rate)
             signed == signed_direction(inst.direction, portfolio[i].quantity)
         IN  IF inst.kind # "ok" THEN ExtractFailed(inst.kind)
             ELSE IF inst.symbol # None /\ held.underlying_symbol # None
                     /\ held.underlying_symbol # inst.symbol
             THEN ExtractFailed(SymbolErr)
             ELSE IF held.direction # None /\ signed * held.direction[1] < 0
             THEN ExtractFailed(MonotonicErr)
             ELSE IF held.spot # None /\ ~isclose(held.spot[1], inst.spot, Year)
             THEN ExtractFailed(SharedSpotErr)
             ELSE IF held.vol # None /\ ~isclose(held.vol[1], inst.vol, Year)
             THEN ExtractFailed(SharedVolErr)
             ELSE IF held.rate # None /\ ~isclose(held.rate[1], inst.rate, Year)
             THEN ExtractFailed(SharedRateErr)
             ELSE extract_loop(portfolio, market_data, i + 1,
                      [kind |-> "ok",
                       spot |-> Some(or_else(held.spot, inst.spot)),
                       vol |-> Some(or_else(held.vol, inst.vol)),
                       rate |-> Some(or_else(held.rate, inst.rate)),
                       dividend |-> Some(or_else(held.dividend, inst.div)),
                       underlying_symbol |-> IF inst.symbol # None
                                                /\ held.underlying_symbol = None
                                             THEN inst.symbol
                                             ELSE held.underlying_symbol,
                       direction |-> Some(or_else(held.direction, signed))])

\* _extract_underlying_params
extract_underlying_params(portfolio, market_data) ==
    LET held == extract_loop(portfolio, market_data, 1,
                    [kind |-> "ok", spot |-> None, vol |-> None,
                     rate |-> IF "risk_free" \in DOMAIN market_data.rates
                              THEN Some(market_data.rates["risk_free"]) ELSE None,
                     dividend |-> None, underlying_symbol |-> None, direction |-> None])
    IN  IF held.kind # "ok" THEN held
        ELSE IF held.spot = None \/ held.vol = None \/ held.rate = None
        THEN ExtractFailed(NoInstrumentErr)
        ELSE [held EXCEPT !.dividend =
                  Some(or_else(held.dividend, or_else(default_dividend(market_data), 0))),
                          !.direction = Some(or_else(held.direction, 1))]

\* analytic_pfe_profile(portfolio, market_data, ...): the validation of the
\* arguments, _extract_underlying_params, and the exposures of
\* _price_portfolio_at_spot, which reprices every option with BlackScholesModel
analytic_pfe_profile_of(portfolio, market_data, horizons, confidence, threshold, value_adjustment, value_q, value_mean) ==
    LET params == extract_underlying_params(portfolio, market_data)
        out == analytic_pfe_profile(horizons, confidence, threshold, value_adjustment,
                   params.kind = "ok",
                   \E i \in DOMAIN portfolio : portfolio[i].instrument.type = "EuropeanOption",
                   value_q, value_mean)
    IN  IF out.kind = UnderlyingErr THEN [out EXCEPT !.kind = params.kind] ELSE out

----------------------------------------------------------------------------
(* The state machine of Part 5.  cfg holds a portfolio and a market; an     *)
(* action calls analytic_pfe_profile or _roll_portfolio on them.            *)

Position(instrument, quantity, direction, label) ==
    [instrument |-> instrument, quantity |-> quantity, direction |-> direction,
     label |-> label]

\* an option without a symbol, struck at the spot 1.0, one year to maturity
Option(spot, vol, rate, option_type) ==
    Instrument("EuropeanOption", "", spot, Year, Year, 0, vol, rate, option_type)

\* a forward on ABC that embeds the spot 1.00002
Forward(rate) == Instrument("EquityForward", "ABC", Year + 2, Year, Year, 0, 0, rate, "")

AnalyticPositions ==
    {Position(Forward(1000), 1, "long", "fwd"),
     Position(Forward(2000), 0 - 1, "short", ""),
     Position(Option(Year, 20000, 0, "call"), 1, "long", "call"),
     Position(Option(Year, 20000, 0, "call"), 0 - 2, "long", ""),
     Position(Option(Year, 20000, 0, "Put"), 1, "long", ""),
     Position(Option(Year, 20000, 0, "put"), 0 - 1, "short", "put"),
     Position(Option(Year, 30000, 0, "call"), 1, "long", ""),
     Position(Option(Year + 1, 20000, 0, "call"), 0, "long", ""),
     Position(Option(Year + 2, 20000, 1000, "call"), 1, "long", ""),
     Position(Option(Year, 20000, 0, "straddle"), 1, "long", ""),
     Position(Instrument("EuropeanOption", "XYZ", Year, Year, Year, 0, 20000, 0, "put"), 1,
              "long", ""),
     Position(Instrument("EquitySpot", "ABC", Year, 0, 0, 0, 0, 0, ""), 1, "long", "spot"),
     Position(Bond("FixedRateBond", 10, 1, Year, 2), 1, "long", "bond"),
     Position(Bond("ZeroCouponBond", 10, 0, Year \div 2, 0), 1, "short", "")}

AnalyticPortfolios == UNION {[1..n -> AnalyticPositions] : n \in 0..MaxPositions}

AnalyticMarkets ==
    [spots : Maps({"ABC"}, {Year}),
     rates : Maps({"risk_free"}, {0, 1000}),
     vols : Maps({"ABC"}, {20000}),
     dividends : Maps({"ABC"}, {0}),
     curves : {NoShocks}]

\* the arguments of an analytic_pfe_profile call: the confidence in percent,
\* the horizons, and the value of the portfolio at the quantile spot
ProfileArgs ==
    {[confidence |-> 95, horizons |-> <<Year>>, value |-> 2],
     [confidence |-> 95, horizons |-> <<Year>>, value |-> 0 - 1],
     [confidence |-> 5, horizons |-> <<Year, 0>>, value |-> 2],
     [confidence |-> 100, horizons |-> <<Year>>, value |-> 2],
     [confidence |-> 95, horizons |-> <<>>, value |-> 2],
     [confidence |-> 95, horizons |-> <<0 - Year>>, value |-> 2]}

RollHorizons == {0, Year \div 2, Year, 2 * Year}

AnalyticInit ==
    /\ heap = <<>>
    /\ names = {}
    /\ last = Idle
    /\ cfg \in [market : AnalyticMarkets, portfolio : AnalyticPortfolios]
    /\ ref = NoCall
    /\ cur = NoCall

AnalyticProfile ==
    /\ cur.op = "idle"
    /\ \E args \in ProfileArgs :
          cur' = [op |-> "analytic_pfe_profile", confidence |-> args.confidence,
                  horizons |-> args.horizons,
                  out |-> analytic_pfe_profile_of(cfg.portfolio, cfg.market, args.horizons,
                              args.confidence, 0, 0,
                              [h \in Range(args.horizons) |-> args.value],
                              [h \in Range(args.horizons) |-> 2])]
    /\ UNCHANGED <<heap, names, last, cfg, ref>>

RollPortfolio ==
    /\ cur.op = "idle"
    /\ \E horizon \in RollHorizons :
          cur' = [op |-> "roll_portfolio", portfolio |-> cfg.portfolio, horizon |-> horizon,
                  out |-> roll_portfolio(cfg.portfolio, horizon)]
    /\ UNCHANGED <<heap, names, last, cfg, ref>>

AnalyticNext == AnalyticProfile \/ RollPortfolio \/ DropResult

SpecAnalytic == AnalyticInit /\ [][AnalyticNext]_vars

----------------------------------------------------------------------------
(* Part 5: the claims about analytic_pfe_profile and _roll_portfolio *)

\* the position has a direction: it is a forward, a call or a put
HasDirection(position) ==
    \/ position.instrument.type = "EquityForward"
    \/ /\ position.instrument.type = "EuropeanOption"
       /\ position.instrument.option_type \in {"call", "Call", "put", "Put"}

\* +1 for a forward or a call and -1 for a put, negated for a negative quantity
SignedDirection(position) ==
    (IF position.instrument.option_type \in {"put", "Put"} THEN 0 - 1 ELSE 1)
        * (IF position.quantity < 0 THEN 0 - 1 ELSE 1)

\* position k is the first one whose signed direction is opposite to that of
\* an earlier position
FirstOpposite(k) ==
    LET Opposed(n) == /\ HasDirection(cfg.portfolio[n])
                      /\ \E j \in 1..(n - 1) :
                             /\ HasDirection(cfg.portfolio[j])
                             /\ SignedDirection(cfg.portfolio[j])
                                    # SignedDirection(cfg.portfolio[n])
    IN  Opposed(k) /\ \A n \in 1..(k - 1) : ~Opposed(n)

\* the checks of the arguments, of the positions before k and of position k
\* that come before the comparison of the directions have raised nothing
EarlierPassed(k) ==
    /\ validate_confidence(cur.confidence)
    /\ cur.horizons # <<>>
    /\ \A i \in DOMAIN cur.horizons : cur.horizons[i] >= 0
    /\ extract_underlying_params(SubSeq(cfg.portfolio, 1, k - 1), cfg.market).kind = "ok"
    /\ cfg.portfolio[k].instrument.type = "EquityForward" =>
           cfg.portfolio[k].instrument.symbol \in DOMAIN cfg.market.vols
    /\ cfg.portfolio[k].instrument.symbol # "" =>
           \A j \in 1..(k - 1) :
               cfg.portfolio[j].instrument.symbol
                   \in {"", cfg.portfolio[k].instrument.symbol}

\* C22: analytic_pfe_profile raises 'portfolio value is not monotonic in spot'
\* exactly when two positions have opposite signed directions (+1 for a forward
\* or a call, -1 for a put, negated for a negative quantity) and no check that
\* comes before has raised; positions of one signed direction pass the check.
C22_NotMonotonic ==
    cur.op = "analytic_pfe_profile" =>
        (cur.out.kind = MonotonicErr
            <=> \E k \in DOMAIN cfg.portfolio : FirstOpposite(k) /\ EarlierPassed(k))

\* a long call and a long put
C22_Witness ==
    /\ cur.op = "analytic_pfe_profile"
    /\ cur.out.kind = MonotonicErr
    /\ Len(cfg.portfolio) = 2
    /\ cfg.portfolio[1].instrument.option_type = "call"
    /\ cfg.portfolio[2].instrument.option_type = "put"
    /\ cfg.portfolio[1].quantity > 0
    /\ cfg.portfolio[2].quantity > 0

SharedErrs == {SharedSpotErr, SharedVolErr, SharedRateErr}

\* the spot, the volatility and the rate of a supported position: those of the
\* market for the symbol of a forward where the market has them, and else the
\* ones the instrument embeds
ParamsOf(position) ==
    LET instrument == position.instrument
        forward == instrument.type = "EquityForward"
    IN  [spot |-> IF forward /\ instrument.symbol \in DOMAIN cfg.market.spots
                  THEN cfg.market.spots[instrument.symbol] ELSE instrument.spot,
         vol |-> IF forward /\ instrument.symbol \in DOMAIN cfg.market.vols
                 THEN cfg.market.vols[instrument.symbol] ELSE instrument.vol,
         rate |-> IF forward /\ "risk_free" \in DOMAIN cfg.market.rates
                  THEN cfg.market.rates["risk_free"] ELSE instrument.rate]

\* two positions of the portfolio differ in spot, volatility or rate by more
\* than the tolerance of np.isclose
SomeDiffer ==
    \E i, j \in DOMAIN cfg.portfolio :
        LET a == ParamsOf(cfg.portfolio[i])
            b == ParamsOf(cfg.portfolio[j])
        IN  \/ ~isclose(a.spot, b.spot, Year)
            \/ ~isclose(a.vol, b.vol, Year)
            \/ ~isclose(a.rate, b.rate, Year)

\* C23: when no other check raises, analytic_pfe_profile raises 'all instruments
\* must share the same spot / vol / rate' if and only if two positions differ
\* in spot, volatility or rate, and never for a single supported position.
C23_SharedParameters ==
    cur.op = "analytic_pfe_profile" =>
        /\ cur.out.kind \in SharedErrs \cup {"ok", NotAnOptionErr} =>
               (cur.out.kind \in SharedErrs <=> SomeDiffer)
        /\ (Len(cfg.portfolio) = 1 /\ HasDirection(cfg.portfolio[1])) =>
               cur.out.kind \notin SharedErrs

RolledTypes == {"EquityForward", "FixedRateBond", "ZeroCouponBond", "EuropeanOption"}

\* rolled is the instrument with every field but the maturity as it was, and
\* the maturity reduced by the horizon and floored at zero
SameButMaturity(rolled, instrument, horizon) ==
    /\ DOMAIN rolled = DOMAIN instrument
    /\ \A f \in DOMAIN instrument \ {"maturity"} : rolled[f] = instrument[f]
    /\ rolled.maturity = IF instrument.maturity - horizon > 0
                         THEN instrument.maturity - horizon ELSE 0

\* C29: _roll_portfolio returns the positions in their order, each with its
\* quantity, direction and label, and with its instrument at maturity
\* max(maturity - horizon, 0) for EquityForward, FixedRateBond, ZeroCouponBond
\* and EuropeanOption and as it is for any other type; the portfolio given is
\* left as it was.
C29_RollPortfolio ==
    cur.op = "roll_portfolio" =>
        /\ DOMAIN cur.out = DOMAIN cur.portfolio
        /\ cfg.portfolio = cur.portfolio
        /\ \A i \in DOMAIN cur.portfolio :
               /\ cur.out[i].quantity = cur.portfolio[i].quantity
               /\ cur.out[i].direction = cur.portfolio[i].direction
               /\ cur.out[i].label = cur.portfolio[i].label
               /\ IF cur.portfolio[i].instrument.type \in RolledTypes
                  THEN SameButMaturity(cur.out[i].instrument, cur.portfolio[i].instrument,
                                       cur.horizon)
                  ELSE cur.out[i].instrument = cur.portfolio[i].instrument

\* a zero-coupon bond of half a year rolled by a year, next to an equity spot
C29_Witness ==
    /\ cur.op = "roll_portfolio"
    /\ cur.horizon = Year
    /\ Len(cur.portfolio) = 2
    /\ cur.portfolio[1].instrument.type = "ZeroCouponBond"
    /\ cur.portfolio[1].instrument.maturity = Year \div 2
    /\ cur.out[1].instrument.maturity = 0
    /\ cur.out[1].direction = "short"
    /\ cur.portfolio[2].instrument.type = "EquitySpot"
    /\ cur.out[2] = cur.portfolio[2]
----------------------------------------------------------------------------
(* Part 6: factor keys against the curve registry, and curve bumps          *)

\* validate_factor_keys: "ok" or the exception of the first key, in the order
\* of the dict, that _validate_curve_id rejects; keys is list(self.factors.keys())
RECURSIVE validate_keys_from(_, _, _, _)
validate_keys_from(st, nms, keys, i) ==
    IF i > Len(keys) THEN "ok"
    ELSE LET v == validate_curve_id(st, nms, keys[i])
         IN  IF v # "ok" THEN v ELSE validate_keys_from(st, nms, keys, i + 1)

validate_factor_keys(st, nms, keys) == validate_keys_from(st, nms, keys, 1)

DfLibKey == <<"DF", "LIB", "5Y">>

ShortKey == <<"DF", "OIS">>

FxForwardKey == <<"FWD", "EURUSD", "1M">>

\* the keys the factors of a state are drawn from, and the keys get is asked for
FactorKeys == Keys \cup {DfLibKey, ShortKey}

GetKeys == FactorKeys \cup {FxForwardKey}

RegistryCurves == CurveNames \cup {"LIB"}

\* the orders a dict of the keys D can hold them in
KeyOrders(D) ==
    {q \in [1..Cardinality(D) -> D] : \A i, j \in DOMAIN q : q[i] = q[j] => i = j}

RegistryInit ==
    /\ names \in SUBSET RegistryCurves
    /\ \E D \in SUBSET FactorKeys, dc \in InitCurves, reg \in {NoRegistry, TheRegistry} :
          /\ post_init(dc, reg, names) = "ok"
          /\ heap = <<MarketState([k \in D |-> BaseValue(k)], dc, "eod", reg)>>
    /\ last = Idle
    /\ PfeUnused

\* A call of heap[id].get(key)
Get ==
    /\ last.op = "idle"
    /\ \E id \in DOMAIN heap, key \in GetKeys :
          LET r == get(heap[id], names, key)
          IN  last' = [op |-> "get", src |-> id, key |-> key, before |-> heap[id],
                       known |-> names, kind |-> r.kind, val |-> r.val]
    /\ UNCHANGED <<heap, names, pfeVars>>

\* A call of heap[id].validate_factor_keys()
ValidateFactorKeys ==
    /\ last.op = "idle"
    /\ \E id \in DOMAIN heap :
          \E keys \in KeyOrders(DOMAIN heap[id].factors) :
              last' = [op |-> "validate_factor_keys", src |-> id, before |-> heap[id],
                       known |-> names,
                       kind |-> validate_factor_keys(heap[id], names, keys)]
    /\ UNCHANGED <<heap, names, pfeVars>>

RegistryNext == Get \/ ValidateFactorKeys \/ Register \/ Drop

SpecRegistry == RegistryInit /\ [][RegistryNext]_vars

----------------------------------------------------------------------------
(* Market, CurveSet and the flat curves; bump_market and curve_sensitivities *)
(*                                                                          *)
(* Rates are counted in basis points (1e-4), so that bump(bp) adds bp; the  *)
(* discount factor exp(-r t) is taken to first order, 10000 - r t, in       *)
(* units of 1e-4.  A dict is the sequence of its items.  Every object       *)
(* carries its identity in oid; an object a call builds has oid 0.          *)

NotInSetErr == "KeyError: CurveId not found in CurveSet"
NotInMarketErr == "KeyError: CurveId not found in market"
NoCurveSetErr == "KeyError: Missing CurveSet for currency"
NoForwardErr == "KeyError: Missing forward curve for index"
AccrualsErr == "ValueError: pay_times and accruals must have the same length"

\* what "except KeyError" catches
KeyErrors == {NotInSetErr, NotInMarketErr, NoCurveSetErr, NoForwardErr}

\* how many forward curves a CurveSet holds at most
MaxForwards == 1

CurveId(name) == [name |-> name]

FlatZeroDiscountCurve(oid, id, currency, r) ==
    [oid |-> oid, id |-> id, currency |-> currency, r |-> r]

FlatForwardCurve(oid, id, currency, index, f) ==
    [oid |-> oid, id |-> id, currency |-> currency, index |-> index, f |-> f]

\* FlatZeroDiscountCurve.df
df(curve, t) == 10000 - curve.r * t

\* FlatForwardCurve.fwd
fwd(curve, t1, t2) == curve.f

\* FlatZeroDiscountCurve.bump
bump_discount(curve, bp) ==
    FlatZeroDiscountCurve(0, curve.id, curve.currency, curve.r + bp)

\* FlatForwardCurve.bump
bump_forward(curve, bp) ==
    FlatForwardCurve(0, curve.id, curve.currency, curve.index, curve.f + bp)

\* forwards is the sequence of the items [index, curve] of the dict
CurveSet(oid, currency, discount, forwards) ==
    [oid |-> oid, currency |-> currency, discount |-> discount, forwards |-> forwards]

\* dataclasses.replace(self, ...): a new CurveSet of the given fields
replace(self, discount, forwards) == CurveSet(0, self.currency, discount, forwards)

\* the first item of forwards whose curve has the id, or 0
first_forward(forwards, curve_id) ==
    IF \E k \in DOMAIN forwards : forwards[k].curve.id = curve_id
    THEN CHOOSE k \in DOMAIN forwards :
             /\ forwards[k].curve.id = curve_id
             /\ \A j \in 1..(k - 1) : forwards[j].curve.id # curve_id
    ELSE 0

\* bump_curve with every curve of the set bumped
bump_curve_whole_set(self, curve_id, bp) ==
    IF self.discount.id = curve_id \/ first_forward(self.forwards, curve_id) # 0
    THEN [kind |-> "ok",
          set |-> replace(self, bump_discount(self.discount, bp),
                     [k \in DOMAIN self.forwards |->
                         [self.forwards[k] EXCEPT
                             !.curve = bump_forward(self.forwards[k].curve, bp)]])]
    ELSE [kind |-> NotInSetErr, set |-> self]

\* CurveSet.bump_curve: [kind, set]
bump_curve(self, curve_id, bp) ==
    IF self.discount.id = curve_id
    THEN [kind |-> "ok",
          set |-> replace(self, bump_discount(self.discount, bp), self.forwards)]
    ELSE LET k == first_forward(self.forwards, curve_id)
         IN  IF k # 0
             THEN [kind |-> "ok",
                   set |-> replace(self, self.discount,
                              [self.forwards EXCEPT
                                  ![k].curve = bump_forward(self.forwards[k].curve, bp)])]
             ELSE [kind |-> NotInSetErr, set |-> self]

\* CurveSet.curve_ids
curve_ids(self) ==
    <<self.discount.id>> \o [k \in DOMAIN self.forwards |-> self.forwards[k].curve.id]

\* _freeze_mapping: a new read-only mapping of the same items
freeze_mapping(mapping) == [oid |-> 0, items |-> mapping.items]

\* Market(curve_sets=..., fx_spot=...): __post_init__ freezes both mappings
Market(curve_sets, fx_spot) ==
    [oid |-> 0, curve_sets |-> freeze_mapping(curve_sets),
     fx_spot |-> freeze_mapping(fx_spot)]

\* the loop of bump_market from the i-th curve set on: [kind, items]
RECURSIVE bump_sets_from(_, _, _, _)
bump_sets_from(items, curve_id, bp, i) ==
    IF i > Len(items) THEN [kind |-> NotInMarketErr, items |-> items]
    ELSE LET bumped == bump_curve(items[i].set, curve_id, bp)
         IN  IF bumped.kind \in KeyErrors
             THEN bump_sets_from(items, curve_id, bp, i + 1)
             ELSE [kind |-> "ok", items |-> [items EXCEPT ![i].set = bumped.set]]

\* bump_market: [kind, market, self], self being the argument after the call
bump_market(market, curve_id, bp) ==
    LET new_curve_sets == bump_sets_from(market.curve_sets.items, curve_id, bp, 1)
    IN  IF new_curve_sets.kind # "ok"
        THEN [kind |-> new_curve_sets.kind, market |-> <<>>, self |-> market]
        ELSE [kind |-> "ok",
              market |-> Market([oid |-> 0, items |-> new_curve_sets.items],
                                market.fx_spot),
              self |-> market]

Swap(currency, notional, fixed_rate, pay_times, accruals, index) ==
    [currency |-> currency, notional |-> notional, fixed_rate |-> fixed_rate,
     pay_times |-> pay_times, accruals |-> accruals,
     float_leg |-> [currency |-> currency, index |-> index]]

\* Market.curves: [kind, val]
curves(market, currency) ==
    LET items == market.curve_sets.items
    IN  IF \E i \in DOMAIN items : items[i].currency = currency
        THEN Ok((CHOOSE i \in DOMAIN items : items[i].currency = currency))
        ELSE Raise(NoCurveSetErr)

\* CurveSet.forward: the item of the index, or 0
forward(self, index) ==
    IF \E k \in DOMAIN self.forwards : self.forwards[k].index = index
    THEN CHOOSE k \in DOMAIN self.forwards : self.forwards[k].index = index
    ELSE 0

\* the legs of SwapPricer.pv summed over the first n payments
RECURSIVE swap_legs(_, _, _, _)
swap_legs(swap, disc, fwd_curve, n) ==
    IF n = 0 THEN 0
    ELSE swap_legs(swap, disc, fwd_curve, n - 1)
         + swap.notional * fwd(fwd_curve, 0, 0) * swap.accruals[n] * df(disc, swap.pay_times[n])
         - swap.notional * swap.fixed_rate * swap.accruals[n] * df(disc, swap.pay_times[n])

\* SwapPricer.pv: [kind, val]
pv(swap, market) ==
    LET at == curves(market, swap.currency)
    IN  IF at.kind # "ok" THEN Raise(at.kind)
        ELSE LET cs == market.curve_sets.items[at.val].set
                 k == forward(cs, swap.float_leg.index)
             IN  IF k = 0 THEN Raise(NoForwardErr)
                 ELSE IF Len(swap.pay_times) # Len(swap.accruals) THEN Raise(AccrualsErr)
                 ELSE Ok(swap_legs(swap, cs.discount, cs.forwards[k].curve,
                                   Len(swap.pay_times)))

\* _portfolio_pv over the first n trades: [kind, val]
RECURSIVE portfolio_pv_to(_, _, _)
portfolio_pv_to(trades, market, n) ==
    IF n = 0 THEN Ok(0)
    ELSE LET total == portfolio_pv_to(trades, market, n - 1)
             one == pv(trades[n], market)
         IN  IF total.kind # "ok" THEN total
             ELSE IF one.kind # "ok" THEN one
             ELSE Ok(total.val + one.val)

portfolio_pv(trades, market) == portfolio_pv_to(trades, market, Len(trades))

\* the curve ids of the curve sets from the i-th on, in order
RECURSIVE collected_from(_, _)
collected_from(items, i) ==
    IF i > Len(items) THEN <<>>
    ELSE curve_ids(items[i].set) \o collected_from(items, i + 1)

RiskRequest(bp, req_curves) == [bp |-> bp, curves |-> req_curves]

\* _curves_to_bump
curves_to_bump(market, req) ==
    IF req.curves # None THEN req.curves[1]
    ELSE collected_from(market.curve_sets.items, 1)

CurveRisk(curve_id, dPV) == [curve_id |-> curve_id, dPV |-> dPV]

RiskFailed(e) == [kind |-> e, risks |-> <<>>]

\* the loop of curve_sensitivities with every bump applied to the market the
\* bump before it returned
RECURSIVE risks_accumulated(_, _, _, _, _, _)
risks_accumulated(trades, market, bp, curve_ids_, base_pv, n) ==
    IF n > Len(curve_ids_) THEN [kind |-> "ok", risks |-> <<>>]
    ELSE LET bumped_market == bump_market(market, curve_ids_[n], bp)
         IN  IF bumped_market.kind # "ok" THEN RiskFailed(bumped_market.kind)
             ELSE LET bumped_pv == portfolio_pv(trades, bumped_market.market)
                      rest == risks_accumulated(trades, bumped_market.market, bp,
                                                curve_ids_, base_pv, n + 1)
                  IN  IF bumped_pv.kind # "ok" THEN RiskFailed(bumped_pv.kind)
                      ELSE IF rest.kind # "ok" THEN rest
                      ELSE [kind |-> "ok",
                            risks |-> <<CurveRisk(curve_ids_[n], bumped_pv.val - base_pv)>>
                                      \o rest.risks]

\* the loop of curve_sensitivities from the n-th curve id on: [kind, risks]
RECURSIVE risks_from(_, _, _, _, _, _)
risks_from(trades, market, bp, curve_ids_, base_pv, n) ==
    IF n > Len(curve_ids_) THEN [kind |-> "ok", risks |-> <<>>]
    ELSE LET bumped_market == bump_market(market, curve_ids_[n], bp)
         IN  IF bumped_market.kind # "ok" THEN RiskFailed(bumped_market.kind)
             ELSE LET bumped_pv == portfolio_pv(trades, bumped_market.market)
                      rest == risks_from(trades, market, bp, curve_ids_, base_pv, n + 1)
                  IN  IF bumped_pv.kind # "ok" THEN RiskFailed(bumped_pv.kind)
                      ELSE IF rest.kind # "ok" THEN rest
                      ELSE [kind |-> "ok",
                            risks |-> <<CurveRisk(curve_ids_[n], bumped_pv.val - base_pv)>>
                                      \o rest.risks]

\* curve_sensitivities: [kind, risks]
curve_sensitivities(trades, market, req) ==
    LET ids == curves_to_bump(market, req)
        base_pv == portfolio_pv(trades, market)
    IN  IF base_pv.kind # "ok" THEN RiskFailed(base_pv.kind)
        ELSE risks_from(trades, market, req.bp, ids, base_pv.val, 1)

----------------------------------------------------------------------------
(* The state machine of Part 6 *)

Indexes == <<"3M", "6M", "12M">>

\* how the curves of the input markets are named: every curve by its own
\* currency and tenor, every curve by the tenor alone (so that two curve sets
\* share their ids), or the forwards of a set by the id of its discount curve
IdModes == {"own", "shared", "single"}

DiscountId(mode, currency) ==
    CurveId(IF mode = "shared" THEN <<"OIS">> ELSE <<currency, "OIS">>)

ForwardId(mode, currency, index) ==
    CurveId(IF mode = "own" THEN <<currency, index>>
            ELSE IF mode = "shared" THEN <<index>>
            ELSE <<currency, "OIS">>)

MissingId == CurveId(<<"MISSING">>)

\* the i-th curve set of an input market, of n forwards
InputSet(i, currency, mode, n) ==
    CurveSet(10 * i, currency,
             FlatZeroDiscountCurve(10 * i + 1, DiscountId(mode, currency), currency,
                                   IF currency = "USD" THEN 200 ELSE 150),
             [k \in 1..n |->
                 [index |-> Indexes[k],
                  curve |-> FlatForwardCurve(10 * i + 1 + k,
                                ForwardId(mode, currency, Indexes[k]), currency, Indexes[k],
                                IF currency = "USD" THEN 300 ELSE 250)]])

CurrencyOrders == {<<"USD">>, <<"USD", "EUR">>, <<"EUR", "USD">>}

InputMarket(order, mode, n) ==
    [oid |-> 1,
     curve_sets |-> [oid |-> 2,
                     items |-> [i \in DOMAIN order |->
                                   [currency |-> order[i],
                                    set |-> InputSet(i, order[i], mode, n)]]],
     fx_spot |-> [oid |-> 3, items |-> [p \in {<<"EUR", "USD">>} |-> 125]]]

RiskMarkets ==
    {InputMarket(order, mode, n) : order \in CurrencyOrders, mode \in IdModes,
                                   n \in 0..MaxForwards}

UsdSwap == Swap("USD", 2, 200, <<1, 2>>, <<1, 1>>, "3M")

EurSwap == Swap("EUR", 1, 300, <<1>>, <<1>>, "3M")

TradeLists == {<<>>, <<UsdSwap>>, <<EurSwap>>, <<UsdSwap, EurSwap>>}

BumpSizes == {0 - 1, 0, 1}

\* the curve ids a call may name
CurveIdArgs ==
    {DiscountId(mode, c) : mode \in IdModes, c \in {"USD", "EUR"}}
        \cup {ForwardId("own", "USD", "3M"), ForwardId("shared", "USD", "3M"), MissingId}

\* the curves of a RiskRequest
RequestCurves ==
    {None, Some(<<>>)}
        \cup {Some(<<a>>) : a \in CurveIdArgs}
        \cup {Some(<<ForwardId("own", "USD", "3M"), b>>) : b \in CurveIdArgs}
        \cup {Some(<<DiscountId("shared", "USD"), ForwardId("shared", "USD", "3M")>>)}

RiskInit ==
    /\ heap = <<>>
    /\ names = {}
    /\ last = Idle
    /\ cfg \in [market : RiskMarkets, trades : TradeLists, bp : BumpSizes]
    /\ ref = NoCall
    /\ cur = NoCall

BumpMarket ==
    /\ cur.op = "idle"
    /\ \E curve_id \in CurveIdArgs :
          cur' = [op |-> "bump_market", curve_id |-> curve_id,
                  out |-> bump_market(cfg.market, curve_id, cfg.bp)]
    /\ UNCHANGED <<heap, names, last, cfg, ref>>

CurveSensitivities ==
    /\ cur.op = "idle"
    /\ \E req_curves \in RequestCurves :
          cur' = [op |-> "curve_sensitivities", curves |-> req_curves,
                  out |-> curve_sensitivities(cfg.trades, cfg.market,
                                              RiskRequest(cfg.bp, req_curves))]
    /\ UNCHANGED <<heap, names, last, cfg, ref>>

RiskNext == BumpMarket \/ CurveSensitivities \/ DropResult

SpecRisk == RiskInit /\ [][RiskNext]_vars

----------------------------------------------------------------------------
(* Claims about Part 6 *)

\* a key of the form DF.<curve>.<pillar>
IsDfPillarKey(key) == Len(key) = 3 /\ key[1] = "DF"

\* the registry the state of the last call was attached to knew the curve of key
CurveKnown(key) == key[2] \in last.known

WithRegistry == last.before.registry # NoRegistry

\* the DF.<curve>.<pillar> keys among the factors of the state of the last call
DfFactors == {k \in DOMAIN last.before.factors : IsDfPillarKey(k)}

\* every factor key that names a curve has the three parts
WellFormed == \A k \in DOMAIN last.before.factors : IsCurveKey(k) => Len(k) >= 3

\* C27: with a registry attached, get and validate_factor_keys raise the
\* ValueError 'Unknown curve id' for a DF.<curve>.<pillar> factor key whose
\* curve id is not registered, whether or not the factor is present, and
\* succeed for keys whose curve id is registered.
C27_UnknownCurveId ==
    /\ (last.op = "get" /\ WithRegistry /\ IsDfPillarKey(last.key)) =>
           IF ~CurveKnown(last.key) THEN last.kind = CurveErr
           ELSE last.key \in DOMAIN last.before.factors =>
                    /\ last.kind = "ok"
                    /\ last.val = last.before.factors[last.key]
    /\ (last.op = "validate_factor_keys" /\ WithRegistry /\ WellFormed) =>
           IF \E k \in DfFactors : ~CurveKnown(k) THEN last.kind = CurveErr
           ELSE last.kind = "ok"

\* get of a present DF factor whose curve the attached registry does not know
C27_Witness ==
    /\ last.op = "get"
    /\ WithRegistry
    /\ last.key = DfLibKey
    /\ last.key \in DOMAIN last.before.factors
    /\ "OIS" \in last.known
    /\ ~CurveKnown(last.key)
    /\ last.kind = CurveErr

\* the positions of the curves of a market: <<i, 0>> is the discount curve of
\* the i-th curve set, <<i, k>> its k-th forward curve
Positions(market) ==
    UNION {{<<i, k>> : k \in 0..Len(market.curve_sets.items[i].set.forwards)} :
              i \in DOMAIN market.curve_sets.items}

CurveAt(market, pos) ==
    IF pos[2] = 0 THEN market.curve_sets.items[pos[1]].set.discount
    ELSE market.curve_sets.items[pos[1]].set.forwards[pos[2]].curve

Level(curve) == IF "r" \in DOMAIN curve THEN curve.r ELSE curve.f

Before(p, q) == p[1] < q[1] \/ (p[1] = q[1] /\ p[2] < q[2])

Matching(market, curve_id) == {p \in Positions(market) : CurveAt(market, p).id = curve_id}

\* the curve a curve id stands for: the first one of the market that carries it
Identified(market, curve_id) ==
    CHOOSE p \in Matching(market, curve_id) :
        \A q \in Matching(market, curve_id) : q = p \/ Before(p, q)

\* C25: bump_market raises KeyError when no curve set holds the curve id, and
\* otherwise returns a new Market in which the one curve the id identifies is a
\* new curve of the same id, bumped by bp, inside a new CurveSet, while every
\* other curve, every other CurveSet and the FX spots are the objects of the
\* original market, which is left as it was.
C25_BumpMarket ==
    cur.op = "bump_market" =>
        /\ cur.out.self = cfg.market
        /\ IF Matching(cfg.market, cur.curve_id) = {}
           THEN cur.out.kind = NotInMarketErr
           ELSE LET at == Identified(cfg.market, cur.curve_id)
                    old == cfg.market.curve_sets.items
                    new == cur.out.market.curve_sets.items
                IN  /\ cur.out.kind = "ok"
                    /\ cur.out.market.oid # cfg.market.oid
                    /\ cur.out.market.fx_spot.items = cfg.market.fx_spot.items
                    /\ DOMAIN new = DOMAIN old
                    /\ \A i \in DOMAIN old :
                           /\ new[i].currency = old[i].currency
                           /\ i # at[1] => new[i].set = old[i].set
                    /\ new[at[1]].set.oid # old[at[1]].set.oid
                    /\ new[at[1]].set.currency = old[at[1]].set.currency
                    /\ Positions(cur.out.market) = Positions(cfg.market)
                    /\ \A p \in Positions(cfg.market) :
                           p # at => CurveAt(cur.out.market, p) = CurveAt(cfg.market, p)
                    /\ CurveAt(cur.out.market, at).oid # CurveAt(cfg.market, at).oid
                    /\ CurveAt(cur.out.market, at).id = cur.curve_id
                    /\ CurveAt(cur.out.market, at).currency = CurveAt(cfg.market, at).currency
                    /\ Level(CurveAt(cur.out.market, at))
                           = Level(CurveAt(cfg.market, at)) + cfg.bp

\* the forward curve of the second of two curve sets is bumped: the first set
\* and the discount curve beside it are the objects they were
C25_Witness ==
    /\ cur.op = "bump_market"
    /\ cur.out.kind = "ok"
    /\ cfg.bp = 1
    /\ Len(cfg.market.curve_sets.items) = 2
    /\ Identified(cfg.market, cur.curve_id) = <<2, 1>>
    /\ cur.out.market.curve_sets.items[1].set.oid = 10
    /\ cur.out.market.curve_sets.items[2].set.oid = 0
    /\ cur.out.market.curve_sets.items[2].set.discount.oid = 21
    /\ cur.out.market.curve_sets.items[2].set.forwards[1].curve.f = 301

\* the curve ids of a market in the order of its curve sets, the discount
\* curve of a set before its forward curves
Rank(market, p) == Cardinality({q \in Positions(market) : Before(q, p)}) + 1

AllIds(market) ==
    [n \in 1..Cardinality(Positions(market)) |->
        CurveAt(market, CHOOSE p \in Positions(market) : Rank(market, p) = n).id]

\* the market in which only the curve the id identifies is moved by bp
OnlyBumped(market, curve_id, bp) ==
    LET at == Identified(market, curve_id)
        moved(i, set) ==
            [set EXCEPT
                !.discount = IF at = <<i, 0>> THEN [@ EXCEPT !.r = @ + bp] ELSE @,
                !.forwards = [k \in DOMAIN @ |->
                                 IF at = <<i, k>> THEN [@[k] EXCEPT !.curve.f = @ + bp]
                                 ELSE @[k]]]
    IN  [market EXCEPT
            !.curve_sets.items = [i \in DOMAIN @ |-> [@[i] EXCEPT !.set = moved(i, @)]]]

RequestedIds == IF cur.curves = None THEN AllIds(cfg.market) ELSE cur.curves[1]

\* C26: curve_sensitivities returns one CurveRisk per requested curve id, in
\* the order of the request, or, when the request names no curves, one per
\* curve of every CurveSet of the market; the dPV of each is the PV of the
\* trades under the base market with only that curve bumped by bp, minus
\* their PV under the base market, whatever was bumped before it.
C26_CurveSensitivities ==
    cur.op = "curve_sensitivities" =>
        LET base == portfolio_pv(cfg.trades, cfg.market)
        IN  IF base.kind # "ok" THEN cur.out.kind = base.kind
            ELSE IF \E k \in DOMAIN RequestedIds :
                        Matching(cfg.market, RequestedIds[k]) = {}
                 THEN cur.out.kind = NotInMarketErr
            ELSE /\ cur.out.kind = "ok"
                 /\ DOMAIN cur.out.risks = DOMAIN RequestedIds
                 /\ \A k \in DOMAIN RequestedIds :
                        /\ cur.out.risks[k].curve_id = RequestedIds[k]
                        /\ cur.out.risks[k].dPV =
                               portfolio_pv(cfg.trades,
                                   OnlyBumped(cfg.market, RequestedIds[k], cfg.bp)).val
                               - base.val

\* a swap's risk to its forward curve and then to its discount curve: the
\* second figure is the one of the discount curve alone
C26_Witness ==
    /\ cur.op = "curve_sensitivities"
    /\ cur.out.kind = "ok"
    /\ cfg.bp = 1
    /\ cfg.trades = <<UsdSwap>>
    /\ cur.curves = Some(<<ForwardId("own", "USD", "3M"), DiscountId("own", "USD")>>)
    /\ cur.out.risks[1].dPV = 38800
    /\ cur.out.risks[2].dPV = 0 - 600

\* a request that names no curves, on a market of two curve sets
C26_AllCurves ==
    /\ cur.op = "curve_sensitivities"
    /\ cur.out.kind = "ok"
    /\ cur.curves = None
    /\ Len(cfg.market.curve_sets.items) = 2
    /\ Len(cur.out.risks) = 4

----------------------------------------------------------------------------
(* Further claims about the path simulators, the time grid of the Monte    *)
(* Carlo profile and the curve registry of Parts 1 and 2                   *)

Simulators == {"gbm", "heston", "vasicek", "hull_white"}

\* the initial level a direct simulator call is given
InitialLevel == IF cur.op \in {"gbm", "heston"} THEN SimSpot ELSE SimRate

\* C24: a simulator called with dt, num_steps and num_paths > 0 (and valid
\* parameters) returns num_paths paths of num_steps + 1 columns whose column 0
\* is the initial level; with one of the three not > 0 it raises ValueError with
\* no random number drawn.
C24_SimulatorShape ==
    cur.op \in Simulators =>
        IF cfg.dt > 0 /\ cur.num_steps > 0 /\ cfg.num_paths > 0
        THEN /\ cur.out.kind = "ok"
             /\ DOMAIN cur.out.paths = 1..cfg.num_paths
             /\ \A p \in 1..cfg.num_paths :
                    /\ DOMAIN cur.out.paths[p] = 0..cur.num_steps
                    /\ cur.out.paths[p][0] = InitialLevel
        ELSE /\ cur.out.kind \in {DtErr, NumStepsErr, NumPathsErr}
             /\ cur.out.draws = 0

\* a Heston run of two steps whose last column has left the initial spot
C24_Witness ==
    /\ cur.op = "heston"
    /\ cur.out.kind = "ok"
    /\ cur.num_steps = 2
    /\ cfg.num_paths = 2
    /\ cur.out.paths[1][0] = SimSpot
    /\ cur.out.paths[2][0] = SimSpot
    /\ cur.out.paths[2][2] # SimSpot

\* the level a simulated factor starts from in a Monte Carlo profile
StartLevel(f) == IF f = "risk_free" THEN TheMarket.rates[f] ELSE TheMarket.spots[f]

\* the columns the profile reads for the horizons of cfg
StepIndices == {step_index(cfg.horizons[i], cfg.dt) : i \in DOMAIN cfg.horizons}

\* C30: for every horizon grid _validate_horizons accepts, the step index
\* int(round(horizon / dt)) of every horizon lies in 0..num_steps, so that
\* monte_carlo_pfe_profile never reads a simulated path outside its columns;
\* a horizon of 0 reads column 0, which holds the initial level.
C30_StepIndexInRange ==
    /\ (cur.op = "validate_horizons" /\ cur.out.kind = "ok") =>
           /\ StepIndices \subseteq 0..cur.out.num_steps
           /\ \A i \in DOMAIN cfg.horizons :
                  cfg.horizons[i] = 0 => step_index(cfg.horizons[i], cfg.dt) = 0
    /\ (cur.op = "pfe" /\ cur.out.kind = "ok") =>
           \A f \in DOMAIN cur.out.paths : \A p \in DOMAIN cur.out.paths[f] :
               /\ StepIndices \subseteq DOMAIN cur.out.paths[f][p]
               /\ cur.out.paths[f][p][0] = StartLevel(f)

\* a profile over the horizons 0 and one year on a half-year grid: the paths
\* have the columns 0..2 and the horizons read columns 0 and 2
C30_Witness ==
    /\ cur.op = "pfe"
    /\ cur.out.kind = "ok"
    /\ cfg.horizons = <<0, Year>>
    /\ cfg.dt = Year \div 2
    /\ StepIndices = {0, 2}
    /\ \A f \in DOMAIN cur.out.paths : \A p \in DOMAIN cur.out.paths[f] :
           DOMAIN cur.out.paths[f][p] = 0..2
    /\ "risk_free" \in DOMAIN cur.out.paths
====
